---- MODULE Spec2Model ----
(***************************************************************************)
(* A model of the SQL generator of sql-schema-builder (src/sqlGenerator.ts) *)
(* SQLGenerator.generate and its helpers: the junction synthesizer          *)
(* (generateJunctionTable), the foreign-key resolver (addForeignKeyFields), *)
(* the CREATE TABLE renderer and the ALTER TABLE renderer.                  *)
(*                                                                         *)
(* The generated text is modelled as the sequence of its statements, each  *)
(* a record of the pieces the template strings interpolate; white space    *)
(* and the fixed keywords of the templates are not modelled.               *)
(*                                                                         *)
(* The editor (App) is modelled by its handlers that change the schema:    *)
(* the mode toggle, the connection gesture and the materialization of a    *)
(* junction table; the recommendation panel by its analyzeSchema.          *)
(***************************************************************************)
EXTENDS Integers, Sequences, FiniteSets, TLC

VARIABLES
    schema,     \* the caller's Schema value: [tables, relationships]
    dialect,    \* this.dialect
    clock,      \* the wall clock read by new Date()
    call,       \* the entry point being run: "generate" or "resolve"
    pc,         \* position inside the running call
    i,          \* index of the running for-loop (1-based)
    rels,       \* addForeignKeyFields: schema.relationships of its argument
    tables,     \* addForeignKeyFields: the local array `tables`
    sql,        \* generate: the local `sql`, as a sequence of statements
    first,      \* harness: the tables returned by the previous resolve call
    prevSql,    \* harness: the text returned by the previous generate call
    calls,      \* harness: number of calls that have returned
    nodes,      \* editor (App): the nodes of the canvas
    edges,      \* editor (App): the edges of the canvas
    relationships,      \* editor (App): the Relationship records
    schemaMode,         \* editor (App): "LOGICAL" or "CONCEPTUAL"
    recommendations,    \* RecommendationPanel: its recommendations
    validationIssues,   \* RecommendationPanel: its validation issues
    tableModal          \* editor (App, TableModal): the table dialog and its columns

\* The state of the editor and of its recommendation panel.
editorVars == <<nodes, edges, relationships, schemaMode, recommendations, validationIssues,
                tableModal>>

vars == <<schema, dialect, clock, call, pc, i, rels, tables, sql, first, prevSql, calls,
          nodes, edges, relationships, schemaMode, recommendations, validationIssues,
          tableModal>>

\* The editor as App constructs it (the useState calls): an empty canvas in
\* LOGICAL mode, and a panel without findings.
\* The table dialog when it is not shown (part_000 lines 35-36:
\* showTableModal false, editingTable null).
ClosedModal == [show |-> FALSE]

EmptyEditor ==
    /\ tableModal = ClosedModal
    /\ nodes = <<>>
    /\ edges = <<>>
    /\ relationships = <<>>
    /\ schemaMode = "LOGICAL"
    /\ recommendations = <<>>
    /\ validationIssues = <<>>

----------------------------------------------------------------------------
(* Bounds of the model *)

MaxCols  == 2      \* columns per input table
MaxRels  == 2      \* relationships per input schema
MaxCalls == 2      \* consecutive calls made by the harness
MaxClock == 2      \* clock readings 0..MaxClock, in ticks
MaxGestures == 1   \* gestures of the user that add to the schema

----------------------------------------------------------------------------
(* JavaScript values *)

\* The value `undefined`, as returned by Array.prototype.find.
Undefined == [undefined |-> TRUE]

\* The outcome of a call that raised a TypeError (property of undefined).
TypeError == [threw |-> "TypeError"]

\* The array `tables` at the end of an iteration that did not throw.
Tables(tbls) == [tables |-> tbls]

\* The empty string '' returned by the renderers that skip.
EmptySql == [kind |-> "EMPTY"]

\* Array.prototype.findIndex, 1-based; 0 stands for JavaScript's -1.
findIndex(arr, Test(_)) ==
    IF \E k \in 1..Len(arr) : Test(arr[k])
    THEN CHOOSE k \in 1..Len(arr) :
            /\ Test(arr[k])
            /\ \A j \in 1..(k - 1) : ~Test(arr[j])
    ELSE 0

\* Array.prototype.find
find(arr, Test(_)) ==
    LET k == findIndex(arr, Test) IN IF k = 0 THEN Undefined ELSE arr[k]

\* Array.prototype.filter
filter(arr, Test(_)) == SelectSeq(arr, Test)

\* Array.prototype.map
map(arr, F(_)) == [k \in 1..Len(arr) |-> F(arr[k])]

\* Array.prototype.some
some(arr, Test(_)) == \E k \in 1..Len(arr) : Test(arr[k])

\* An expression `value` that reads a property of obj: a TypeError when obj
\* is undefined (or when computing obj already threw), the value otherwise.
read(obj, value) ==
    IF obj = Undefined \/ obj = TypeError THEN TypeError ELSE value

----------------------------------------------------------------------------
(* Inputs: the schemas the harness can hand to the generator *)

Cardinalities == {"1:1", "1:N", "N:1", "N:M"}

Dialects == {"ACCESS"}

TableIds == <<"t1", "t2">>
TableNames == <<"Customer", "Invoice">>

\* Column prototypes (the id is set by position in the table).
\* They satisfy the data model: autoIncrement => primaryKey, unique, not
\* nullable; primaryKey => not nullable.
ColumnPool ==
    { [id |-> "", name |-> "id", type |-> "AUTOINCREMENT", primaryKey |-> TRUE,
       nullable |-> FALSE, unique |-> TRUE, autoIncrement |-> TRUE],
      [id |-> "", name |-> "code", type |-> "TEXT", primaryKey |-> TRUE,
       nullable |-> FALSE, unique |-> TRUE, autoIncrement |-> FALSE],
      [id |-> "", name |-> "id", type |-> "INTEGER", primaryKey |-> FALSE,
       nullable |-> TRUE, unique |-> FALSE, autoIncrement |-> FALSE] }

ColumnId(k) == "c" \o ToString(k)

\* A column id that no table holds (the column was removed after the
\* relationship was drawn).
GoneColumnId == "gone"

ColumnLists ==
    UNION { { [k \in 1..n |-> [protos[k] EXCEPT !.id = ColumnId(k)]] :
                protos \in [1..n -> ColumnPool] } : n \in 0..MaxCols }

TableLists ==
    UNION { { [k \in 1..n |-> [id |-> TableIds[k], name |-> TableNames[k],
                                columns |-> cols[k]]] :
                cols \in [1..n -> ColumnLists] } : n \in 0..Len(TableIds) }

Rel(src, srcCol, tgt, tgtCol, card, sOpt, tOpt, del, upd) ==
    [id |-> "", sourceTableId |-> src, sourceColumnId |-> srcCol,
     targetTableId |-> tgt, targetColumnId |-> tgtCol, cardinality |-> card,
     sourceOptional |-> sOpt, targetOptional |-> tOpt,
     onDelete |-> del, onUpdate |-> upd]

\* Relationship prototypes (the id is set by position in the list).
RelPool ==
    \* every cardinality between every pair of endpoints, both sides required
    { Rel(e[1], "c1", e[2], "c1", card, FALSE, FALSE, "NO ACTION", "NO ACTION") :
        e \in {<<"t1", "t2">>, <<"t2", "t1">>, <<"t1", "t1">>},
        card \in Cardinalities }
    \cup
    \* optional sides
    { Rel("t1", "c1", "t2", "c1", card, o[1], o[2], "CASCADE", "NO ACTION") :
        card \in {"1:1", "1:N"},
        o \in {<<TRUE, FALSE>>, <<FALSE, TRUE>>, <<TRUE, TRUE>>} }
    \cup
    \* dangling column references
    { Rel("t1", c[1], "t2", c[2], card, FALSE, FALSE, "NO ACTION", "SET NULL") :
        card \in {"1:N", "N:M"},
        c \in {<<GoneColumnId, "c1">>, <<"c1", GoneColumnId>>} }

RelId(k) == "r" \o ToString(k)

\* The relationships whose order and interplay matter in a longer list.
RelCore ==
    { Rel("t1", "c1", "t2", "c1", "1:N", FALSE, FALSE, "NO ACTION", "NO ACTION"),
      Rel("t1", "c1", "t2", "c1", "N:M", FALSE, FALSE, "NO ACTION", "NO ACTION"),
      Rel("t2", "c1", "t1", "c1", "N:M", FALSE, FALSE, "NO ACTION", "NO ACTION"),
      Rel("t1", "c1", "t2", "c1", "N:1", FALSE, FALSE, "NO ACTION", "NO ACTION"),
      Rel("t1", GoneColumnId, "t2", "c1", "1:N", FALSE, FALSE, "NO ACTION", "SET NULL") }

\* A list of one relationship draws it from RelPool, a longer list draws
\* every relationship from RelCore.
RelLists ==
    UNION { { [k \in 1..n |-> [protos[k] EXCEPT !.id = RelId(k)]] :
                protos \in [1..n -> IF n = 1 THEN RelPool ELSE RelCore] } :
            n \in 0..MaxRels }

Schemas == [tables : TableLists, relationships : RelLists]

\* SQLDialect and DataType of the types file, and type names outside
\* DataType: one the object literal of mapDataType does not know at all and
\* two it inherits.
SQLDialects == {"ACCESS", "SQLITE", "MYSQL", "POSTGRESQL"}
DataTypes == {"TEXT", "INTEGER", "LONG", "DOUBLE", "CURRENCY", "DATETIME",
              "BOOLEAN", "AUTOINCREMENT", "MEMO", "OLE"}
TypeNames == DataTypes \cup {"GUID", "constructor", "__proto__"}

\* Schemas of two tables, the first with a primary key of any type name,
\* and at most one relationship.
TypedSchemas ==
    { [tables |->
         << [id |-> TableIds[1], name |-> TableNames[1], columns |->
               << [id |-> ColumnId(1), name |-> "id", type |-> ty,
                   primaryKey |-> TRUE, nullable |-> FALSE, unique |-> TRUE,
                   autoIncrement |-> (ty = "AUTOINCREMENT")] >>],
            [id |-> TableIds[2], name |-> TableNames[2], columns |->
               << [id |-> ColumnId(1), name |-> "code", type |-> "TEXT",
                   primaryKey |-> TRUE, nullable |-> FALSE, unique |-> TRUE,
                   autoIncrement |-> FALSE] >>] >>,
       relationships |-> rl] :
      ty \in TypeNames, rl \in {l \in RelLists : Len(l) <= 1} }

----------------------------------------------------------------------------
(* The renderers *)

\* typeMap is an object literal: typeMap[type] also finds the properties
\* every object inherits from Object.prototype, and what it finds there is
\* truthy, so that `|| 'VARCHAR(255)'` does not apply (line 229).
InheritedNames == {"constructor", "toString", "valueOf", "hasOwnProperty", "__proto__"}

\* What the template strings make of an inherited property: the text of a
\* built-in function, or of the prototype object.
inherited(type) ==
    IF type = "__proto__" THEN "[object Object]"
    ELSE "function " \o (IF type = "constructor" THEN "Object" ELSE type)
         \o "() { [native code] }"

\* Mutant of mapDataType: the dialect of the generator picks the text of
\* the TEXT type.
mapDataType_ByDialect(type) ==
    IF type = "TEXT" /\ dialect # "ACCESS" THEN "TEXT"
    ELSE IF type = "AUTOINCREMENT" THEN "COUNTER"
    ELSE "VARCHAR(255)"

\* mapDataType: the fixed type map, VARCHAR(255) for anything else.
mapDataType(type) ==
    CASE type = "TEXT"          -> "VARCHAR(255)"
      [] type = "INTEGER"       -> "INTEGER"
      [] type = "LONG"          -> "LONG"
      [] type = "DOUBLE"        -> "DOUBLE"
      [] type = "CURRENCY"      -> "CURRENCY"
      [] type = "DATETIME"      -> "DATETIME"
      [] type = "BOOLEAN"       -> "BIT"
      [] type = "AUTOINCREMENT" -> "COUNTER"
      [] type = "MEMO"          -> "LONGTEXT"
      [] type = "OLE"           -> "OLEOBJECT"
      [] type \in InheritedNames -> inherited(type)
      [] OTHER                  -> "VARCHAR(255)"

\* new Date() reads a clock finer than the seconds toLocaleString('ru-RU')
\* shows (line 171).
TicksPerSecond == 2

\* toLocaleString('ru-RU'): date and time of day to the second; here the
\* seconds since the clock's reading 0.
toLocaleString(now) == ToString(now \div TicksPerSecond) \o " s"

\* Mutant of generateHeader: the clock reading is written on the Dialect
\* line too.
generateHeader_TimeOnDialectLine(d, now) ==
    [kind |-> "HEADER", dialect |-> d \o " " \o toLocaleString(now),
     generated |-> toLocaleString(now)]

\* generateHeader: the header comment; `now` is the clock reading.
generateHeader(d, now) ==
    [kind |-> "HEADER", dialect |-> d, generated |-> toLocaleString(now)]

\* generateColumnDef: [name] type [COUNTER] [NOT NULL] [UNIQUE]
generateColumnDef(column) ==
    [name    |-> column.name,
     type    |-> mapDataType(column.type),
     counter |-> column.autoIncrement /\ column.type = "AUTOINCREMENT",
     notNull |-> ~column.nullable,
     unique  |-> column.unique /\ ~column.primaryKey]

\* generateCreateTable: the column definitions, then the PRIMARY KEY
\* constraint over every primaryKey column when there is one.
generateCreateTable(table) ==
    LET primaryKeyColumns == filter(table.columns, LAMBDA c : c.primaryKey)
    IN  [kind        |-> "CREATE TABLE",
         name        |-> table.name,
         columns     |-> map(table.columns, generateColumnDef),
         pkName      |-> IF Len(primaryKeyColumns) > 0
                         THEN "PK_" \o table.name ELSE "",
         primaryKey  |-> map(primaryKeyColumns, LAMBDA c : c.name),
         foreignKeys |-> <<>>]

\* generateJunctionTable, the template (lines 149-167).
junctionSql(sourceTable, targetTable, sourcePK, targetPK) ==
    LET junctionName  == sourceTable.name \o "_" \o targetTable.name
        sourceType    == mapDataType(sourcePK.type)
        targetType    == mapDataType(targetPK.type)
        sourceColName == sourcePK.name
        targetColName == targetPK.name
    IN  [kind        |-> "CREATE TABLE",
         name        |-> junctionName,
         columns     |-> << [name |-> sourceColName, type |-> sourceType,
                             counter |-> FALSE, notNull |-> TRUE, unique |-> FALSE],
                            [name |-> targetColName, type |-> targetType,
                             counter |-> FALSE, notNull |-> TRUE, unique |-> FALSE] >>,
         pkName      |-> "PK_" \o junctionName,
         primaryKey  |-> <<sourceColName, targetColName>>,
         foreignKeys |-> << [name |-> "FK_" \o junctionName \o "_" \o sourceTable.name,
                             column |-> sourceColName,
                             refTable |-> sourceTable.name,
                             refColumn |-> sourcePK.name],
                            [name |-> "FK_" \o junctionName \o "_" \o targetTable.name,
                             column |-> targetColName,
                             refTable |-> targetTable.name,
                             refColumn |-> targetPK.name] >>]

\* Mutant of generateJunctionTable: the relationship's column ids are
\* looked up as the Resolver does, and a dangling one skips the table.
generateJunctionTable_NeedsColumns(rel, tbls) ==
    LET sourceTable == find(tbls, LAMBDA t : t.id = rel.sourceTableId)
        targetTable == find(tbls, LAMBDA t : t.id = rel.targetTableId)
    IN
    IF sourceTable = Undefined \/ targetTable = Undefined THEN EmptySql
    ELSE
    LET sourceColumn == find(sourceTable.columns, LAMBDA c : c.id = rel.sourceColumnId)
        targetColumn == find(targetTable.columns, LAMBDA c : c.id = rel.targetColumnId)
        sourcePK == find(sourceTable.columns, LAMBDA c : c.primaryKey)
        targetPK == find(targetTable.columns, LAMBDA c : c.primaryKey)
    IN
    IF sourceColumn = Undefined \/ targetColumn = Undefined THEN EmptySql
    ELSE IF sourcePK = Undefined \/ targetPK = Undefined THEN EmptySql
    ELSE junctionSql(sourceTable, targetTable, sourcePK, targetPK)

\* generateJunctionTable: the junction table of an N:M relationship, or ''.
generateJunctionTable(rel, tbls) ==
    LET sourceTable == find(tbls, LAMBDA t : t.id = rel.sourceTableId)
        targetTable == find(tbls, LAMBDA t : t.id = rel.targetTableId)
    IN
    IF sourceTable = Undefined \/ targetTable = Undefined THEN EmptySql
    ELSE
    LET sourcePK == read(sourceTable, find(sourceTable.columns, LAMBDA c : c.primaryKey))
        targetPK == read(targetTable, find(targetTable.columns, LAMBDA c : c.primaryKey))
    IN
    IF sourcePK = Undefined \/ targetPK = Undefined THEN EmptySql
    ELSE
    read(sourceTable, read(targetTable, read(sourcePK, read(targetPK,
        junctionSql(sourceTable, targetTable, sourcePK, targetPK)))))

\* generateForeignKeyConstraint, the switch (lines 254-282): where the FK
\* is, or Undefined where the switch returns ''.
fkConstraintSide(rel, sourceTable, targetTable, sourcePK, targetPK) ==
    LET inTarget == read(sourcePK, [fkColumnName |-> sourcePK.name,
                                    fkTable |-> targetTable, pkColumn |-> sourcePK])
        inSource == read(targetPK, [fkColumnName |-> targetPK.name,
                                    fkTable |-> sourceTable, pkColumn |-> targetPK])
    IN  CASE rel.cardinality = "1:N" -> inTarget
          [] rel.cardinality = "N:1" -> inSource
          [] rel.cardinality = "1:1" ->
                IF rel.targetOptional THEN inTarget
                ELSE IF rel.sourceOptional THEN inSource
                ELSE Undefined
          [] OTHER -> Undefined

\* generateForeignKeyConstraint, the template (lines 284-301).
fkConstraintSql(rel, side, targetTable) ==
    read(side.fkTable, read(targetTable, read(side.pkColumn,
        [kind      |-> "ALTER TABLE",
         table     |-> side.fkTable.name,
         name      |-> "FK_" \o side.fkTable.name \o "_" \o targetTable.name,
         column    |-> side.fkColumnName,
         refTable  |-> targetTable.name,
         refColumn |-> side.pkColumn.name,
         onDelete  |-> IF rel.onDelete # "NO ACTION" THEN rel.onDelete ELSE "",
         onUpdate  |-> IF rel.onUpdate # "NO ACTION" THEN rel.onUpdate ELSE ""])))

\* Mutant of generateForeignKeyConstraint: the check of the two primary keys
\* (line 242) is left out.
generateForeignKeyConstraint_NoKeyGuard(rel, tbls) ==
    LET sourceTable == find(tbls, LAMBDA t : t.id = rel.sourceTableId)
        targetTable == find(tbls, LAMBDA t : t.id = rel.targetTableId)
    IN
    IF sourceTable = Undefined \/ targetTable = Undefined THEN EmptySql
    ELSE
    LET sourcePK == read(sourceTable, find(sourceTable.columns, LAMBDA c : c.primaryKey))
        targetPK == read(targetTable, find(targetTable.columns, LAMBDA c : c.primaryKey))
    IN
    IF rel.cardinality = "N:M" THEN EmptySql
    ELSE
    LET side == fkConstraintSide(rel, sourceTable, targetTable, sourcePK, targetPK)
    IN  IF side = Undefined THEN EmptySql
        ELSE read(side, fkConstraintSql(rel, side, targetTable))

\* generateForeignKeyConstraint: the ALTER TABLE of a relationship, or ''.
generateForeignKeyConstraint(rel, tbls) ==
    LET sourceTable == find(tbls, LAMBDA t : t.id = rel.sourceTableId)
        targetTable == find(tbls, LAMBDA t : t.id = rel.targetTableId)
    IN
    IF sourceTable = Undefined \/ targetTable = Undefined THEN EmptySql
    ELSE
    LET sourcePK == read(sourceTable, find(sourceTable.columns, LAMBDA c : c.primaryKey))
        targetPK == read(targetTable, find(targetTable.columns, LAMBDA c : c.primaryKey))
    IN
    IF sourcePK = Undefined \/ targetPK = Undefined THEN EmptySql
    ELSE IF rel.cardinality = "N:M" THEN EmptySql
    ELSE
    LET side == fkConstraintSide(rel, sourceTable, targetTable, sourcePK, targetPK)
    IN  IF side = Undefined THEN EmptySql
        ELSE read(side, fkConstraintSql(rel, side, targetTable))

----------------------------------------------------------------------------
(* The foreign-key resolver *)

\* Mutant of fkPlacement: for 1:1 the source side's optionality is looked at
\* first.
fkPlacement_SourceOptionalFirst(rel, sourcePK, targetPK) ==
    LET inTarget == read(sourcePK, [manyTableId |-> rel.targetTableId,
                                    fkColumnName |-> sourcePK.name,
                                    pkColumn |-> sourcePK])
        inSource == read(targetPK, [manyTableId |-> rel.sourceTableId,
                                    fkColumnName |-> targetPK.name,
                                    pkColumn |-> targetPK])
    IN  CASE rel.cardinality = "1:N" -> inTarget
          [] rel.cardinality = "N:1" -> inSource
          [] rel.cardinality = "1:1" ->
                IF rel.sourceOptional THEN inSource
                ELSE IF rel.targetOptional THEN inTarget
                ELSE Undefined
          [] OTHER -> Undefined

\* addForeignKeyFields, the switch (lines 73-103): the table that gets the
\* FK column, the column's name and the primary key it copies, or Undefined
\* where the switch continues with the next relationship.
fkPlacement(rel, sourcePK, targetPK) ==
    LET inTarget == read(sourcePK, [manyTableId |-> rel.targetTableId,
                                    fkColumnName |-> sourcePK.name,
                                    pkColumn |-> sourcePK])
        inSource == read(targetPK, [manyTableId |-> rel.sourceTableId,
                                    fkColumnName |-> targetPK.name,
                                    pkColumn |-> targetPK])
    IN  CASE rel.cardinality = "1:N" -> inTarget
          [] rel.cardinality = "N:1" -> inSource
          [] rel.cardinality = "1:1" ->
                IF rel.targetOptional THEN inTarget
                ELSE IF rel.sourceOptional THEN inSource
                ELSE Undefined
          [] OTHER -> Undefined

\* Mutant of fkColumn: the FK column gets a fixed type instead of the type
\* of the primary key.
fkColumn_FixedType(rel, place) ==
    [id            |-> "fk-" \o rel.id \o "-" \o place.manyTableId,
     name          |-> place.fkColumnName,
     type          |-> "INTEGER",
     primaryKey    |-> FALSE,
     nullable      |-> rel.sourceOptional \/ rel.targetOptional,
     unique        |-> rel.cardinality = "1:1",
     autoIncrement |-> FALSE]

\* Mutant of fkColumn: the column is nullable only if the target side is
\* optional.
fkColumn_NullableByTargetOnly(rel, place) ==
    [id            |-> "fk-" \o rel.id \o "-" \o place.manyTableId,
     name          |-> place.fkColumnName,
     type          |-> place.pkColumn.type,
     primaryKey    |-> FALSE,
     nullable      |-> rel.targetOptional,
     unique        |-> rel.cardinality = "1:1",
     autoIncrement |-> FALSE]

\* addForeignKeyFields, the column literal (lines 111-121).
fkColumn(rel, place) ==
    [id            |-> "fk-" \o rel.id \o "-" \o place.manyTableId,
     name          |-> place.fkColumnName,
     type          |-> place.pkColumn.type,
     primaryKey    |-> FALSE,
     nullable      |-> rel.sourceOptional \/ rel.targetOptional,
     unique        |-> rel.cardinality = "1:1",
     autoIncrement |-> FALSE]

\* Mutant of addFkColumn: the FK column is appended without looking for a
\* column of its name.
addFkColumn_NoNameCheck(tbls, rel, place) ==
    LET tableIndex == findIndex(tbls, LAMBDA t : t.id = place.manyTableId)
    IN  IF tableIndex >= 1
        THEN [tbls EXCEPT ![tableIndex] =
                 [@ EXCEPT !.columns = Append(@, fkColumn(rel, place))]]
        ELSE tbls

\* addForeignKeyFields, lines 107-131: append the FK column to the many-side
\* table unless a column of that name is there.
addFkColumn(tbls, rel, place) ==
    LET existingTable == find(tbls, LAMBDA t : t.id = place.manyTableId)
    IN  IF /\ existingTable # Undefined
           /\ ~some(existingTable.columns, LAMBDA c : c.name = place.fkColumnName)
        THEN LET tableIndex == findIndex(tbls, LAMBDA t : t.id = place.manyTableId)
             IN  IF tableIndex >= 1
                 THEN [tbls EXCEPT ![tableIndex] =
                          [@ EXCEPT !.columns = Append(@, fkColumn(rel, place))]]
                 ELSE tbls
        ELSE tbls

\* Mutant of addForeignKeyField: the relationship's column ids are not
\* looked up (no lines 54-57).
addForeignKeyField_NoColumnLookup(tbls, rel) ==
    LET sourceTable == find(tbls, LAMBDA t : t.id = rel.sourceTableId)
        targetTable == find(tbls, LAMBDA t : t.id = rel.targetTableId)
    IN
    IF sourceTable = Undefined \/ targetTable = Undefined THEN Tables(tbls)
    ELSE IF rel.cardinality = "N:M" THEN Tables(tbls)
    ELSE
    LET sourcePK == read(sourceTable, find(sourceTable.columns, LAMBDA c : c.primaryKey))
        targetPK == read(targetTable, find(targetTable.columns, LAMBDA c : c.primaryKey))
    IN
    IF sourcePK = Undefined \/ targetPK = Undefined THEN Tables(tbls)
    ELSE
    LET place == fkPlacement(rel, sourcePK, targetPK)
    IN  IF place = Undefined THEN Tables(tbls)
        ELSE read(place, IF place.pkColumn = Undefined THEN Tables(tbls)
                         ELSE Tables(addFkColumn(tbls, rel, place)))

\* addForeignKeyFields, the body of the loop over the relationships
\* (lines 48-131): the array `tables` after the relationship is processed,
\* or a TypeError.
addForeignKeyField(tbls, rel) ==
    LET sourceTable == find(tbls, LAMBDA t : t.id = rel.sourceTableId)
        targetTable == find(tbls, LAMBDA t : t.id = rel.targetTableId)
    IN
    IF sourceTable = Undefined \/ targetTable = Undefined THEN Tables(tbls)
    ELSE
    LET sourceColumn ==
            read(sourceTable, find(sourceTable.columns, LAMBDA c : c.id = rel.sourceColumnId))
        targetColumn ==
            read(targetTable, find(targetTable.columns, LAMBDA c : c.id = rel.targetColumnId))
    IN
    IF sourceColumn = Undefined \/ targetColumn = Undefined THEN Tables(tbls)
    ELSE IF rel.cardinality = "N:M" THEN Tables(tbls)
    ELSE
    LET sourcePK == read(sourceTable, find(sourceTable.columns, LAMBDA c : c.primaryKey))
        targetPK == read(targetTable, find(targetTable.columns, LAMBDA c : c.primaryKey))
    IN
    IF sourcePK = Undefined \/ targetPK = Undefined THEN Tables(tbls)
    ELSE
    LET place == fkPlacement(rel, sourcePK, targetPK)
    IN  IF place = Undefined THEN Tables(tbls)
        ELSE read(place, IF place.pkColumn = Undefined THEN Tables(tbls)
                         ELSE Tables(addFkColumn(tbls, rel, place)))

\* schema.tables.map(t => ({...t, columns: [...t.columns]}))
copyTables(tbls) ==
    map(tbls, LAMBDA t : [t EXCEPT !.columns = map(t.columns, LAMBDA c : c)])

\* Mutant of callerTables: the Resolver works on the caller's array
\* (const tables = schema.tables).
callerTables_SameArray(local) == local

\* What the caller's schema.tables holds after the Resolver wrote its local
\* array: line 45 built the local array with map, a new array of new table
\* objects with new columns arrays, and lines 126-129 assign a new object to
\* an element of the local array, so no write reaches the caller's array.
callerTables(local) == schema.tables

----------------------------------------------------------------------------
(* generate, step by step *)

\* generate, lines 14-15
nonMNRelationships == filter(schema.relationships, LAMBDA rel : rel.cardinality # "N:M")
mnRelationships == filter(schema.relationships, LAMBDA rel : rel.cardinality = "N:M")

\* Mutant of emit: the text goes in front of what is already there.
emit_InFront(text) == IF text = EmptySql THEN sql ELSE <<text>> \o sql

\* sql += text, where '' adds nothing
emit(text) == IF text = EmptySql THEN sql ELSE Append(sql, text)

\* The harness calls generate(schema).  Lines 7-15: the header.
Header ==
    /\ call = "generate" /\ pc = "start"
    /\ sql' = <<generateHeader(dialect, clock)>>
    /\ pc' = "junction"
    /\ i' = 1
    /\ UNCHANGED <<schema, dialect, clock, call, rels, tables, first, prevSql, calls>>
    /\ UNCHANGED editorVars

\* Lines 18-21: one iteration of the loop over the N:M relationships.
JunctionStep ==
    /\ pc = "junction" /\ i <= Len(mnRelationships)
    /\ LET text == generateJunctionTable(mnRelationships[i], schema.tables)
       IN  IF text = TypeError
           THEN pc' = "threw" /\ UNCHANGED <<sql, i>>
           ELSE sql' = emit(text) /\ i' = i + 1 /\ pc' = pc
    /\ UNCHANGED <<schema, dialect, clock, call, rels, tables, first, prevSql, calls>>
    /\ UNCHANGED editorVars

\* Line 24 and line 45: generate calls addForeignKeyFields with the other
\* relationships, which copies the tables.
ResolveFromGenerate ==
    /\ pc = "junction" /\ i > Len(mnRelationships)
    /\ rels' = nonMNRelationships
    /\ tables' = copyTables(schema.tables)
    /\ pc' = "resolve"
    /\ i' = 1
    /\ UNCHANGED <<schema, dialect, clock, call, sql, first, prevSql, calls>>
    /\ UNCHANGED editorVars

\* Lines 47-132: one iteration of the loop over the relationships.
ResolveStep ==
    /\ pc = "resolve" /\ i <= Len(rels)
    /\ LET out == addForeignKeyField(tables, rels[i])
       IN  IF out = TypeError
           THEN pc' = "threw" /\ UNCHANGED <<tables, i>>
           ELSE tables' = out.tables /\ i' = i + 1 /\ pc' = pc
    /\ schema' = [schema EXCEPT !.tables = callerTables(tables')]
    /\ UNCHANGED <<dialect, clock, call, rels, sql, first, prevSql, calls>>
    /\ UNCHANGED editorVars

\* Line 134 and line 27: addForeignKeyFields returns to generate, which
\* starts the loop over the tables (or skips it when there is none).
ResolveReturnToGenerate ==
    /\ call = "generate" /\ pc = "resolve" /\ i > Len(rels)
    /\ pc' = IF Len(tables) = 0 THEN "alter" ELSE "create"
    /\ i' = 1
    /\ UNCHANGED <<schema, dialect, clock, call, rels, tables, sql, first, prevSql, calls>>
    /\ UNCHANGED editorVars

\* Lines 27-30: one iteration of the loop over the resolved tables.
CreateStep ==
    /\ pc = "create" /\ i <= Len(tables)
    /\ sql' = Append(sql, generateCreateTable(tables[i]))
    /\ IF i = Len(tables) THEN pc' = "alter" /\ i' = 1
                          ELSE pc' = pc /\ i' = i + 1
    /\ UNCHANGED <<schema, dialect, clock, call, rels, tables, first, prevSql, calls>>
    /\ UNCHANGED editorVars

\* Lines 33-38: one iteration of the loop over the non-N:M relationships.
AlterStep ==
    /\ pc = "alter" /\ i <= Len(nonMNRelationships)
    /\ LET alterSQL == generateForeignKeyConstraint(nonMNRelationships[i], tables)
       IN  IF alterSQL = TypeError
           THEN pc' = "threw" /\ UNCHANGED <<sql, i>>
           ELSE sql' = emit(alterSQL) /\ i' = i + 1 /\ pc' = pc
    /\ UNCHANGED <<schema, dialect, clock, call, rels, tables, first, prevSql, calls>>
    /\ UNCHANGED editorVars

\* Line 40: return sql.
Return ==
    /\ pc = "alter" /\ i > Len(nonMNRelationships)
    /\ pc' = "done"
    /\ calls' = calls + 1
    /\ UNCHANGED <<schema, dialect, clock, call, i, rels, tables, sql, first, prevSql>>
    /\ UNCHANGED editorVars

Init ==
    /\ schema \in Schemas
    /\ dialect \in Dialects
    /\ clock = 0
    /\ call = "generate"
    /\ pc = "start"
    /\ i = 0
    /\ rels = <<>>
    /\ tables = <<>>
    /\ sql = <<>>
    /\ first = <<>>
    /\ prevSql = <<>>
    /\ calls = 0
    /\ EmptyEditor

Next ==
    \/ Header
    \/ JunctionStep
    \/ ResolveFromGenerate
    \/ ResolveStep
    \/ ResolveReturnToGenerate
    \/ CreateStep
    \/ AlterStep
    \/ Return

Spec == Init /\ [][Next]_vars

----------------------------------------------------------------------------
(* resolve, called on its own and again on its own result *)

\* The harness calls addForeignKeyFields: with the caller's schema first,
\* then with the schema the previous call returned.  Line 45 copies the
\* tables.
ResolveCall ==
    /\ call = "resolve" /\ pc \in {"start", "resolved"} /\ calls < MaxCalls
    /\ first' = tables
    /\ tables' = copyTables(IF pc = "start" THEN schema.tables ELSE tables)
    /\ rels' = schema.relationships
    /\ pc' = "resolve"
    /\ i' = 1
    /\ UNCHANGED <<schema, dialect, clock, call, sql, prevSql, calls>>
    /\ UNCHANGED editorVars

\* Line 134: return { tables, relationships }.
ResolveReturn ==
    /\ call = "resolve" /\ pc = "resolve" /\ i > Len(rels)
    /\ pc' = "resolved"
    /\ calls' = calls + 1
    /\ UNCHANGED <<schema, dialect, clock, call, i, rels, tables, sql, first, prevSql>>
    /\ UNCHANGED editorVars

InitResolve ==
    /\ schema \in Schemas
    /\ dialect \in Dialects
    /\ clock = 0
    /\ call = "resolve"
    /\ pc = "start"
    /\ i = 0
    /\ rels = <<>>
    /\ tables = <<>>
    /\ sql = <<>>
    /\ first = <<>>
    /\ prevSql = <<>>
    /\ calls = 0
    /\ EmptyEditor

NextResolve ==
    \/ ResolveCall
    \/ ResolveStep
    \/ ResolveReturn

SpecResolve == InitResolve /\ [][NextResolve]_vars

----------------------------------------------------------------------------
(* generate, called again with the same schema while the clock runs *)

\* The caller (generateSQL of the editor) calls generate again on the same
\* generator with the same schema; the text of the previous call is kept
\* for comparison.
CallAgain ==
    /\ call = "generate" /\ pc = "done" /\ calls < MaxCalls
    /\ prevSql' = sql
    /\ sql' = <<>>
    /\ rels' = <<>>
    /\ tables' = <<>>
    /\ pc' = "start"
    /\ i' = 0
    /\ UNCHANGED <<schema, dialect, clock, call, first, calls>>
    /\ UNCHANGED editorVars

\* The clock new Date() reads (line 171) advances on its own.
Tick ==
    /\ clock < MaxClock
    /\ clock' = clock + 1
    /\ UNCHANGED <<schema, dialect, call, pc, i, rels, tables, sql, first, prevSql, calls>>
    /\ UNCHANGED editorVars

InitTwice == Init

NextTwice ==
    \/ Header
    \/ JunctionStep
    \/ ResolveFromGenerate
    \/ ResolveStep
    \/ ResolveReturnToGenerate
    \/ CreateStep
    \/ AlterStep
    \/ Return
    \/ CallAgain
    \/ Tick

SpecTwice == InitTwice /\ [][NextTwice]_vars

----------------------------------------------------------------------------
(* generate, called again by a generator of another dialect *)

\* The dialect selector of the editor sets another dialect, the editor
\* constructs a new SQLGenerator with it and calls generate with the same
\* schema; the text of the previous call is kept for comparison.
CallWithOtherDialect ==
    /\ call = "generate" /\ pc = "done" /\ calls < MaxCalls
    /\ dialect' \in SQLDialects \ {dialect}
    /\ prevSql' = sql
    /\ sql' = <<>>
    /\ rels' = <<>>
    /\ tables' = <<>>
    /\ pc' = "start"
    /\ i' = 0
    /\ UNCHANGED <<schema, clock, call, first, calls>>
    /\ UNCHANGED editorVars

InitDialects ==
    /\ schema \in TypedSchemas
    /\ dialect \in SQLDialects
    /\ clock = 0
    /\ call = "generate"
    /\ pc = "start"
    /\ i = 0
    /\ rels = <<>>
    /\ tables = <<>>
    /\ sql = <<>>
    /\ first = <<>>
    /\ prevSql = <<>>
    /\ calls = 0
    /\ EmptyEditor

NextDialects ==
    \/ Header
    \/ JunctionStep
    \/ ResolveFromGenerate
    \/ ResolveStep
    \/ ResolveReturnToGenerate
    \/ CreateStep
    \/ AlterStep
    \/ Return
    \/ CallWithOtherDialect

SpecDialects == InitDialects /\ [][NextDialects]_vars

----------------------------------------------------------------------------
(* The recommendation panel: analyzeSchema *)

\* String.toLowerCase, for the names of the model: the table names are
\* the only ones with a capital.
toLowerCase(name) ==
    LET lower(n) == CASE n = "Customer" -> "customer"
                      [] n = "Invoice"  -> "invoice"
                      [] OTHER          -> n
        prefixed == { <<t, c>> \in {"Customer", "Invoice"} \X {"id", "code"} :
                        name = t \o "_" \o c }
    IN  IF prefixed = {} THEN lower(name)
        ELSE LET tc == CHOOSE tc \in prefixed : TRUE
             IN  lower(tc[1]) \o "_" \o tc[2]

\* String.includes, for the names of the model: none of them has another
\* string of the model inside it but itself.
includes(name, part) == name = part

\* Check 1 of LOGICAL mode (lines 314-331): one recommendation per N:M
\* relationship whose two tables are found.
nmRecommendation(rel, tbls) ==
    [id       |-> "rec-nm-" \o rel.id,
     type     |-> "n_m_relationship",
     severity |-> "high",
     action   |-> [handler     |-> "onCreateJunctionTable",
                   sourceTable |-> find(tbls, LAMBDA t : t.id = rel.sourceTableId),
                   targetTable |-> find(tbls, LAMBDA t : t.id = rel.targetTableId)]]
\* A variant of check 1 that does not look at the cardinality.
nmRecommendations_AnyCardinality(tbls, relsIn) ==
    LET found(rel) == /\ find(tbls, LAMBDA t : t.id = rel.sourceTableId) # Undefined
                      /\ find(tbls, LAMBDA t : t.id = rel.targetTableId) # Undefined
        withTables == filter(relsIn, found)
    IN  [k \in 1..Len(withTables) |-> nmRecommendation(withTables[k], tbls)]
nmRecommendations(tbls, relsIn) ==
    LET nmRelationships == filter(relsIn, LAMBDA rel : rel.cardinality = "N:M")
        found(rel) == /\ find(tbls, LAMBDA t : t.id = rel.sourceTableId) # Undefined
                      /\ find(tbls, LAMBDA t : t.id = rel.targetTableId) # Undefined
        withTables == filter(nmRelationships, found)
    IN  [k \in 1..Len(withTables) |-> nmRecommendation(withTables[k], tbls)]

\* A variant of check 2 that reports only the tables without any column.
noPrimaryKeyIssues_EmptyTablesOnly(tbls) ==
    LET without == filter(tbls, LAMBDA table : table.columns = <<>>)
    IN  [k \in 1..Len(without) |->
            [id       |-> "val-nopk-" \o without[k].id,
             type     |-> "no_primary_key",
             severity |-> "high",
             action   |-> [handler |-> "onAddConstraint", table |-> without[k],
                           constraintType |-> "PRIMARY_KEY"]]]

\* Check 2 (lines 333-347): one validation issue per table without a
\* primaryKey column.
noPrimaryKeyIssues(tbls) ==
    LET without == filter(tbls, LAMBDA table : ~some(table.columns, LAMBDA col : col.primaryKey))
    IN  [k \in 1..Len(without) |->
            [id       |-> "val-nopk-" \o without[k].id,
             type     |-> "no_primary_key",
             severity |-> "high",
             action   |-> [handler |-> "onAddConstraint", table |-> without[k],
                           constraintType |-> "PRIMARY_KEY"]]]

\* Check 3 (lines 349-365): one validation issue per table with two columns
\* of the same name, whatever the case of the letters.
duplicateColumnIssues(tbls) ==
    LET columnNames(table) == [k \in 1..Len(table.columns) |-> toLowerCase(table.columns[k].name)]
        duplicated(table) == \E j \in 1..Len(table.columns) : \E k \in 1..Len(table.columns) :
                                j < k /\ columnNames(table)[j] = columnNames(table)[k]
        with == filter(tbls, duplicated)
    IN  [k \in 1..Len(with) |->
            [id       |-> "val-dupcol-" \o with[k].id,
             type     |-> "duplicate_columns",
             severity |-> "medium",
             action   |-> [handler |-> "onFixValidation",
                           issue |-> "rename_duplicate_columns_" \o with[k].id]]]

\* Check 4 (lines 367-385): one recommendation per relationship whose
\* source column is found in its source table and is not unique.
missingIndexRecommendations(tbls, relsIn) ==
    LET sourceTable(rel) == find(tbls, LAMBDA t : t.id = rel.sourceTableId)
        indexedColumn(rel) == find(sourceTable(rel).columns, LAMBDA col : col.id = rel.sourceColumnId)
        flagged(rel) == /\ sourceTable(rel) # Undefined
                        /\ indexedColumn(rel) # Undefined
                        /\ ~indexedColumn(rel).unique
        without == filter(relsIn, flagged)
    IN  [k \in 1..Len(without) |->
            [id       |-> "rec-index-" \o without[k].id,
             type     |-> "missing_index",
             severity |-> "medium",
             action   |-> [handler |-> "onAddConstraint", table |-> sourceTable(without[k]),
                           constraintType |-> "INDEX"]]]

\* Check 5 (lines 387-403): one recommendation per table with a TEXT column
\* whose name has neither 'length' nor 'size' in it.
textLengthRecommendations(tbls) ==
    LET longText(col) == /\ col.type = "TEXT"
                         /\ ~includes(col.name, "length")
                         /\ ~includes(col.name, "size")
        with == filter(tbls, LAMBDA table : some(table.columns, longText))
    IN  [k \in 1..Len(with) |->
            [id       |-> "rec-textlen-" \o with[k].id,
             type     |-> "text_length",
             severity |-> "low",
             action   |-> [handler |-> "onAddConstraint", table |-> with[k],
                           constraintType |-> "CHECK_LENGTH"]]]

\* Check 1 of CONCEPTUAL mode (lines 405-421): one validation issue per
\* entity without a PRIMARY attribute.
noPrimaryAttributeIssues(ents) ==
    LET without == filter(ents, LAMBDA entity :
                            ~some(entity.attributes, LAMBDA attr : attr.type = "PRIMARY"))
    IN  [k \in 1..Len(without) |->
            [id       |-> "conc-nopk-" \o without[k].id,
             type     |-> "no_primary_key",
             severity |-> "high",
             action   |-> [handler |-> "onFixValidation",
                           issue |-> "add_primary_key_" \o without[k].id]]]

\* Check 2 of CONCEPTUAL mode (lines 423-441): one recommendation, without
\* an action, per N:M conceptual relationship whose two entities are found.
nmConceptualRecommendations(ents, concRels) ==
    LET found(rel) == /\ find(ents, LAMBDA e : e.id = rel.sourceEntityId) # Undefined
                      /\ find(ents, LAMBDA e : e.id = rel.targetEntityId) # Undefined
        with == filter(concRels, LAMBDA rel : rel.cardinality = "N:M" /\ found(rel))
    IN  [k \in 1..Len(with) |->
            [id       |-> "conc-nm-" \o with[k].id,
             type     |-> "n_m_relationship",
             severity |-> "info",
             action   |-> [handler |-> "none"]]]

\* analyzeSchema (lines 308-445): the recommendations and the validation
\* issues of the mode.
analyzeSchema(tbls, ents, relsIn, concRels, mode) ==
    IF mode = "LOGICAL"
    THEN [recommendations  |-> nmRecommendations(tbls, relsIn)
                               \o missingIndexRecommendations(tbls, relsIn)
                               \o textLengthRecommendations(tbls),
          validationIssues |-> noPrimaryKeyIssues(tbls) \o duplicateColumnIssues(tbls)]
    ELSE [recommendations  |-> nmConceptualRecommendations(ents, concRels),
          validationIssues |-> noPrimaryAttributeIssues(ents)]

----------------------------------------------------------------------------
(* The editor: App and its handlers *)

generatorVars == <<schema, dialect, call, pc, i, rels, tables, sql, first, prevSql, calls>>

\* Date.now() in an id: the reading of the clock, which has advanced by the
\* next gesture of the user.
now == ToString(clock)

\* { ...object, field: value } for the fields the handlers set.
withAttributes(object, value) == [attributes |-> value] @@ object
withColumns(object, value) == [columns |-> value] @@ object

\* The tables and the entities the editor hands to the panel and to the
\* generator (lines 747-750 and 1150-1151).
tableNodes == filter(nodes, LAMBDA n : n.type = "tableNode")
entityNodes == filter(nodes, LAMBDA n : n.type = "entityNode")
dataOf(ns) == [k \in 1..Len(ns) |-> ns[k].data]

\* conceptualRelationships (line 46): no handler sets it.
conceptualRelationships == <<>>

\* A variant of Refresh in which the panel adds the findings of an analysis
\* to those it holds.
Refresh_Accumulating ==
    LET found == analyzeSchema(
                    dataOf(filter(nodes', LAMBDA n : n.type = "tableNode")),
                    dataOf(filter(nodes', LAMBDA n : n.type = "entityNode")),
                    relationships', conceptualRelationships, schemaMode')
    IN  /\ recommendations' = recommendations \o found.recommendations
        /\ validationIssues' = validationIssues \o found.validationIssues

\* The panel is open: every render with a new schema runs analyzeSchema
\* (the effect of lines 304-306), on the state the handler leaves.
Refresh ==
    LET found == analyzeSchema(
                    dataOf(filter(nodes', LAMBDA n : n.type = "tableNode")),
                    dataOf(filter(nodes', LAMBDA n : n.type = "entityNode")),
                    relationships', conceptualRelationships, schemaMode')
    IN  /\ recommendations' = found.recommendations
        /\ validationIssues' = found.validationIssues

\* A variant of toEntityNode that lays the entity out anew, at the place of
\* a first table.
toEntityNode_LaidOut(n) ==
    [n EXCEPT !.type = "entityNode", !.callbacks = TRUE,
              !.position = [x |-> 100, y |-> 100],
              !.data = withAttributes(n.data,
                  [k \in 1..Len(n.data.columns) |->
                      [id       |-> n.data.columns[k].id,
                       name     |-> n.data.columns[k].name,
                       type     |-> IF n.data.columns[k].primaryKey THEN "PRIMARY" ELSE "NORMAL",
                       dataType |-> n.data.columns[k].type]])]

\* The mode toggle, LOGICAL -> CONCEPTUAL (lines 918-935): the entity node
\* of a table node.
toEntityNode(n) ==
    [n EXCEPT !.type = "entityNode", !.callbacks = TRUE,
              !.data = withAttributes(n.data,
                  [k \in 1..Len(n.data.columns) |->
                      [id       |-> n.data.columns[k].id,
                       name     |-> n.data.columns[k].name,
                       type     |-> IF n.data.columns[k].primaryKey THEN "PRIMARY" ELSE "NORMAL",
                       dataType |-> n.data.columns[k].type]])]

\* Mutant of attributeType: the type is kept only for primary attributes.
attributeType_DefaultForNormal(attr) ==
    IF attr.type = "PRIMARY" /\ "dataType" \in DOMAIN attr /\ attr.dataType # ""
    THEN attr.dataType
    ELSE IF attr.type = "PRIMARY" THEN "INTEGER" ELSE "TEXT"

\* attr.dataType || (attr.type === 'PRIMARY' ? 'INTEGER' : 'TEXT'), line 959.
attributeType(attr) ==
    IF "dataType" \in DOMAIN attr /\ attr.dataType # ""
    THEN attr.dataType
    ELSE IF attr.type = "PRIMARY" THEN "INTEGER" ELSE "TEXT"

\* The mode toggle, CONCEPTUAL -> LOGICAL (lines 950-968): the table node
\* of an entity node.
toTableNode(n) ==
    [n EXCEPT !.type = "tableNode", !.callbacks = TRUE,
              !.data = withColumns(n.data,
                  [k \in 1..Len(n.data.attributes) |->
                      LET attr == n.data.attributes[k]
                      IN  [id            |-> attr.id,
                           name          |-> attr.name,
                           type          |-> attributeType(attr),
                           primaryKey    |-> attr.type = "PRIMARY",
                           nullable      |-> attr.type # "PRIMARY",
                           unique        |-> attr.type = "PRIMARY",
                           autoIncrement |-> attr.type = "PRIMARY"]])]

\* The onClick of the mode toggle (lines 910-976).
ToggleMode ==
    /\ IF schemaMode = "LOGICAL"
       THEN /\ nodes' = entityNodes \o [k \in 1..Len(tableNodes) |-> toEntityNode(tableNodes[k])]
            /\ schemaMode' = "CONCEPTUAL"
       ELSE /\ nodes' = tableNodes \o [k \in 1..Len(entityNodes) |-> toTableNode(entityNodes[k])]
            /\ schemaMode' = "LOGICAL"
    /\ UNCHANGED <<edges, relationships>>
    /\ Refresh
    /\ UNCHANGED <<generatorVars, clock, tableModal>>

\* The schema files imported into the editor: any tables, and at most one
\* relationship, between the first table and the second.
EditorFiles ==
    { data \in Schemas :
        /\ Len(data.relationships) <= 1
        /\ \A k \in 1..Len(data.relationships) :
              /\ data.relationships[k].sourceTableId = TableIds[1]
              /\ data.relationships[k].targetTableId = TableIds[2]
              /\ data.relationships[k].onDelete = "NO ACTION" }

\* handleImportJSON (lines 572-594): the nodes, edges and relationships of
\* a schema file replace those of the editor.  Here a file is imported into
\* an empty canvas only.
\* The place handleSaveTable gives the node of a new table when the canvas
\* holds count table nodes (line 413).
positionOf(count) == [x |-> 100 + (count % 3) * 250, y |-> 100 + (count \div 3) * 200]
\* callbacks: the data of the node carries the edit and delete callbacks of
\* its type, which the handlers put there and a file cannot hold.
tableNode(table, position) ==
    [id |-> table.id, type |-> "tableNode", position |-> position, data |-> table,
     callbacks |-> TRUE]
fileNode(table, position) == [tableNode(table, position) EXCEPT !.callbacks = FALSE]
edgeOf(rel) ==
    [id |-> rel.id, source |-> rel.sourceTableId, sourceHandle |-> rel.sourceColumnId,
     target |-> rel.targetTableId, targetHandle |-> rel.targetColumnId]
ImportJSON ==
    /\ nodes = <<>> /\ relationships = <<>>
    /\ \E data \in EditorFiles :
          /\ nodes' = [k \in 1..Len(data.tables) |-> fileNode(data.tables[k], positionOf(k - 1))]
          /\ edges' = [k \in 1..Len(data.relationships) |-> edgeOf(data.relationships[k])]
          /\ relationships' = data.relationships
    /\ UNCHANGED schemaMode
    /\ Refresh
    /\ UNCHANGED <<generatorVars, clock, tableModal>>

\* onConnect, the name of the FK column (line 145).
onConnectFkName(sourceTable, sourcePK) == sourceTable.name \o "_" \o sourcePK.name

\* onConnect, the FK column (lines 150-161).
onConnectFkColumn(sourceTable, sourcePK) ==
    [id               |-> "col-" \o now \o "-fk",
     name             |-> onConnectFkName(sourceTable, sourcePK),
     type             |-> sourcePK.type,
     primaryKey       |-> FALSE,
     nullable         |-> TRUE,
     unique           |-> FALSE,
     autoIncrement    |-> FALSE,
     isForeignKey     |-> TRUE,
     referencesTable  |-> sourceTable.name,
     referencesColumn |-> sourcePK.name]

\* addEdge of the canvas library: the edge is added unless one between the
\* same handles is there ("" is an edge end without a handle).
addEdge(edge, eds) ==
    IF \E k \in 1..Len(eds) :
          /\ eds[k].source = edge.source /\ eds[k].sourceHandle = edge.sourceHandle
          /\ eds[k].target = edge.target /\ eds[k].targetHandle = edge.targetHandle
    THEN eds
    ELSE Append(eds, edge)

\* The connection handles a node shows: one source and one target handle per
\* column of a table node (part_002 lines 474-495) and per attribute of an
\* entity node (EntityNode.tsx lines 112-133), named after the id.
handleOwners(n) ==
    IF n.type = "tableNode"
    THEN {n.data.columns[k].id : k \in 1..Len(n.data.columns)}
    ELSE {n.data.attributes[k].id : k \in 1..Len(n.data.attributes)}
sourceHandles(n) == {id \o "-source" : id \in handleOwners(n)}
targetHandles(n) == {id \o "-target" : id \in handleOwners(n)}

\* onConnect (lines 122-208): the handler of the connection gesture from a
\* source handle of one node to a target handle of another.
onConnect(params) ==
    LET newId       == "rel-" \o now
        sourceNode  == find(nodes, LAMBDA n : n.id = params.source)
        targetNode  == find(nodes, LAMBDA n : n.id = params.target)
        sourceTable == sourceNode.data
        targetTable == targetNode.data
        sourcePK    == find(sourceTable.columns, LAMBDA col : col.primaryKey)
        adds        == /\ sourceNode # Undefined /\ targetNode # Undefined
                       /\ sourcePK # Undefined
                       /\ find(targetTable.columns,
                               LAMBDA col : col.name = onConnectFkName(sourceTable, sourcePK))
                          = Undefined
        fkCol       == onConnectFkColumn(sourceTable, sourcePK)
    IN  /\ nodes' = IF adds
                    THEN [k \in 1..Len(nodes) |->
                            IF nodes[k].id = params.target
                            THEN [nodes[k] EXCEPT !.callbacks = TRUE, !.data =
                                    withColumns(targetTable, Append(targetTable.columns, fkCol))]
                            ELSE nodes[k]]
                    ELSE nodes
        /\ edges' = addEdge([id |-> newId,
                             source |-> params.source, sourceHandle |-> params.sourceHandle,
                             target |-> params.target, targetHandle |-> params.targetHandle], edges)
        /\ relationships' = Append(relationships,
              [id |-> newId,
               sourceTableId |-> params.source, sourceColumnId |-> params.sourceHandle,
               targetTableId |-> params.target, targetColumnId |-> params.targetHandle,
               cardinality |-> "1:N",
               sourceOptional |-> FALSE, targetOptional |-> FALSE,
               onDelete |-> "CASCADE", onUpdate |-> "CASCADE"])

\* The connections the canvas lets the user draw: from a source handle of a
\* node to a target handle of a node.
Connections ==
    UNION { { [source |-> nodes[s].id, sourceHandle |-> sh,
               target |-> nodes[t].id, targetHandle |-> th] :
                 sh \in sourceHandles(nodes[s]), th \in targetHandles(nodes[t]) } :
            s \in 1..Len(nodes), t \in 1..Len(nodes) }

\* The connection gesture.
OnConnect ==
    /\ clock < MaxGestures
    /\ \E params \in Connections : onConnect(params)
    /\ UNCHANGED schemaMode
    /\ Refresh
    /\ clock' = clock + 1
    /\ UNCHANGED <<generatorVars, tableModal>>

\* object?.field || fallback
orElse(object, value, fallback) ==
    IF object = Undefined \/ value = "" THEN fallback ELSE value

\* handleCreateJunctionTable, the new table (lines 611-640).
junctionTableOf(sourceTable, targetTable) ==
    LET sourcePK == find(sourceTable.columns, LAMBDA col : col.primaryKey)
        targetPK == find(targetTable.columns, LAMBDA col : col.primaryKey)
    IN  [id      |-> "table-" \o now,
         name    |-> sourceTable.name \o "_" \o targetTable.name,
         columns |->
            << [id            |-> "col-" \o now \o "-1",
                name          |-> sourceTable.name \o "_" \o orElse(sourcePK, sourcePK.name, "id"),
                type          |-> orElse(sourcePK, sourcePK.type, "INTEGER"),
                primaryKey    |-> TRUE,
                nullable      |-> FALSE,
                unique        |-> TRUE,
                autoIncrement |-> FALSE],
               [id            |-> "col-" \o now \o "-2",
                name          |-> targetTable.name \o "_" \o orElse(targetPK, targetPK.name, "id"),
                type          |-> orElse(targetPK, targetPK.type, "INTEGER"),
                primaryKey    |-> TRUE,
                nullable      |-> FALSE,
                unique        |-> TRUE,
                autoIncrement |-> FALSE] >>]

\* handleCreateJunctionTable, one of the two relationships (lines 684-709).
junctionRelationship(id, table, newTable, newColumn) ==
    LET pk == find(table.columns, LAMBDA col : col.primaryKey)
    IN  [id             |-> id,
         sourceTableId  |-> table.id,
         sourceColumnId |-> orElse(pk, pk.id,
                               IF Len(table.columns) > 0 THEN table.columns[1].id ELSE ""),
         targetTableId  |-> newTable.id,
         targetColumnId |-> newColumn.id,
         cardinality    |-> "1:N",
         sourceOptional |-> FALSE,
         targetOptional |-> FALSE,
         onDelete       |-> "CASCADE",
         onUpdate       |-> "CASCADE"]

\* handleCreateJunctionTable (lines 606-715): the table, two edges and two
\* relationships it adds.
handleCreateJunctionTable(sourceTable, targetTable) ==
    LET newTable == junctionTableOf(sourceTable, targetTable)
        relId1   == "rel-" \o now \o "-1"
        relId2   == "rel-" \o now \o "-2"
    IN  /\ nodes' = Append(nodes, tableNode(newTable, [x |-> 300, y |-> 300]))
        /\ edges' = edges \o
              << [id |-> relId1, source |-> sourceTable.id, sourceHandle |-> "",
                  target |-> newTable.id, targetHandle |-> ""],
                 [id |-> relId2, source |-> targetTable.id, sourceHandle |-> "",
                  target |-> newTable.id, targetHandle |-> ""] >>
        /\ relationships' = relationships \o
              << junctionRelationship(relId1, sourceTable, newTable, newTable.columns[1]),
                 junctionRelationship(relId2, targetTable, newTable, newTable.columns[2]) >>

\* The action of an N:M recommendation of the panel, taken by the user: it
\* calls handleCreateJunctionTable with the two tables the recommendation is
\* about.
CreateJunctionTable ==
    /\ clock < MaxGestures
    /\ \E r \in 1..Len(recommendations) :
          /\ recommendations[r].action.handler = "onCreateJunctionTable"
          /\ handleCreateJunctionTable(recommendations[r].action.sourceTable,
                                       recommendations[r].action.targetTable)
    /\ UNCHANGED schemaMode
    /\ Refresh
    /\ clock' = clock + 1
    /\ UNCHANGED <<generatorVars, tableModal>>

\* App as it is constructed, with no generator call running.
InitEditor ==
    /\ schema = [tables |-> <<>>, relationships |-> <<>>]
    /\ dialect \in Dialects
    /\ clock = 0
    /\ call = "none"
    /\ pc = "idle"
    /\ i = 0
    /\ rels = <<>>
    /\ tables = <<>>
    /\ sql = <<>>
    /\ first = <<>>
    /\ prevSql = <<>>
    /\ calls = 0
    /\ EmptyEditor

NextEditor ==
    \/ ImportJSON
    \/ ToggleMode
    \/ OnConnect
    \/ CreateJunctionTable

SpecEditor == InitEditor /\ [][NextEditor]_vars

----------------------------------------------------------------------------
(* The vocabulary of the claims, stated over the caller's schema *)

\* The table of the schema with this id, and whether there is one.
HasTable(id) == \E k \in 1..Len(schema.tables) : schema.tables[k].id = id
TableOf(id) == schema.tables[CHOOSE k \in 1..Len(schema.tables) : schema.tables[k].id = id]

HasColumn(t, cid) == \E k \in 1..Len(t.columns) : t.columns[k].id = cid
HasColumnNamed(t, n) == \E k \in 1..Len(t.columns) : t.columns[k].name = n
HasPK(t) == \E k \in 1..Len(t.columns) : t.columns[k].primaryKey

\* The first column of the table that is flagged primaryKey.
FirstPK(t) ==
    t.columns[CHOOSE k \in 1..Len(t.columns) :
                 /\ t.columns[k].primaryKey
                 /\ \A j \in 1..(k - 1) : ~t.columns[j].primaryKey]

\* Both endpoint tables exist and have a primary key.
EndpointsHavePK(rel) ==
    /\ HasTable(rel.sourceTableId) /\ HasTable(rel.targetTableId)
    /\ HasPK(TableOf(rel.sourceTableId)) /\ HasPK(TableOf(rel.targetTableId))

\* The relationship's column ids are ids of columns of its endpoint tables.
ColumnIdsResolve(rel) ==
    /\ HasTable(rel.sourceTableId) /\ HasTable(rel.targetTableId)
    /\ HasColumn(TableOf(rel.sourceTableId), rel.sourceColumnId)
    /\ HasColumn(TableOf(rel.targetTableId), rel.targetColumnId)

\* The Resolver's skip rules: a missing endpoint table, a dangling column
\* id, a missing primary key, a 1:1 relationship with both sides required.
ResolverSkips(rel) ==
    \/ ~EndpointsHavePK(rel)
    \/ ~ColumnIdsResolve(rel)
    \/ rel.cardinality = "1:1" /\ ~rel.sourceOptional /\ ~rel.targetOptional

\* The statements of the text so far.
IsCreate(s) == s.kind = "CREATE TABLE"
IsJunctionCreate(s) == s.kind = "CREATE TABLE" /\ s.foreignKeys # <<>>
IsTableCreate(s) == s.kind = "CREATE TABLE" /\ s.foreignKeys = <<>>
IsAlter(s) == s.kind = "ALTER TABLE"
Creates == SelectSeq(sql, IsCreate)
JunctionCreates == SelectSeq(sql, IsJunctionCreate)
TableCreates == SelectSeq(sql, IsTableCreate)
Alters == SelectSeq(sql, IsAlter)

\* How many elements of the sequence satisfy the test.
Count(arr, Test(_)) == Cardinality({k \in 1..Len(arr) : Test(arr[k])})

----------------------------------------------------------------------------
(* The claims *)

\* C1: the text returned by generate holds exactly one CREATE TABLE per
\* table of the schema plus one per synthesized junction table, and exactly
\* one ALTER TABLE per non-N:M relationship the Resolver does not skip
\* (so none for a skipped relationship, none for an N:M relationship).
\* Violated: generateForeignKeyConstraint never looks at sourceColumnId and
\* targetColumnId, so a relationship the Resolver skips for a dangling
\* column id still gets its ALTER TABLE.
C1_OneStatementPerTableAndResolvedRelationship ==
    pc = "done" =>
        /\ Len(Creates) = Len(schema.tables) + Count(mnRelationships, EndpointsHavePK)
        /\ Len(Alters) = Count(nonMNRelationships, LAMBDA rel : ~ResolverSkips(rel))

\* The FK side the placement rule gives a relationship whose endpoints have
\* primary keys: "target" (the FK is in the target table and refers to the
\* source table's primary key), "source" (the reverse), or "none".
FkSide(rel) ==
    CASE rel.cardinality = "1:N" -> "target"
      [] rel.cardinality = "N:1" -> "source"
      [] rel.cardinality = "1:1" /\ rel.targetOptional -> "target"
      [] rel.cardinality = "1:1" /\ rel.sourceOptional -> "source"
      [] OTHER -> "none"

\* The table that owns the FK of the relationship, and the referenced one.
OwnerOf(rel) ==
    IF FkSide(rel) = "target" THEN TableOf(rel.targetTableId) ELSE TableOf(rel.sourceTableId)
ReferencedOf(rel) ==
    IF FkSide(rel) = "target" THEN TableOf(rel.sourceTableId) ELSE TableOf(rel.targetTableId)

\* The ALTER TABLE statement alters the owner of the relationship's FK, and
\* its REFERENCES clause names the referenced table and its primary key.
AlterReferencesOneSide(stmt, rel) ==
    /\ EndpointsHavePK(rel) /\ FkSide(rel) # "none"
    /\ stmt.table = OwnerOf(rel).name
    /\ stmt.column = FirstPK(ReferencedOf(rel)).name
    /\ stmt.refTable = ReferencedOf(rel).name
    /\ stmt.refColumn = FirstPK(ReferencedOf(rel)).name

\* C2: in every ALTER TABLE statement of the text, REFERENCES names the
\* referenced ("one"-side) table with that table's primary key: for 1:N
\* ALTER TABLE [Target] ... FOREIGN KEY ([srcPK]) REFERENCES [Source]([srcPK]),
\* for N:1 ALTER TABLE [Source] ... REFERENCES [Target]([tgtPK]).
\* Violated: line 288 always writes targetTable.name into REFERENCES, so for
\* 1:N the statement refers to the FK's own table.
C2_ReferencesNamesTheOneSide ==
    \A k \in 1..Len(sql) :
        IsAlter(sql[k]) =>
            \E j \in 1..Len(nonMNRelationships) :
                AlterReferencesOneSide(sql[k], nonMNRelationships[j])

\* A step of the Resolver's loop: the relationship rels[i] is processed.
IsResolveStep == pc = "resolve" /\ i <= Len(rels) /\ i' = i + 1

\* The position in the Resolver's array of the table with this id.
IndexOf(id) == CHOOSE k \in 1..Len(tables) : tables[k].id = id

\* The step leaves every table as it is but the owner, which either has a
\* column named after the primary key already or gets one appended, named
\* and typed after the primary key.
PlacesFkOn(owner, pk) ==
    LET k == IndexOf(owner.id) IN
    /\ Len(tables') = Len(tables)
    /\ \A j \in 1..Len(tables) : j # k => tables'[j] = tables[j]
    /\ \/ tables'[k] = tables[k] /\ HasColumnNamed(tables[k], pk.name)
       \/ /\ ~HasColumnNamed(tables[k], pk.name)
          /\ \E c \in {tables'[k].columns[Len(tables'[k].columns)]} :
                /\ tables'[k] = [tables[k] EXCEPT !.columns = Append(@, c)]
                /\ c.name = pk.name
                /\ c.type = pk.type

\* C3: for every non-N:M relationship that is not skipped the Resolver
\* picks the FK-owning table by cardinality and optionality: 1:N -> the
\* target table gets the source table's primary key; N:1 -> the source table
\* gets the target table's primary key; 1:1 with targetOptional -> as 1:N;
\* 1:1 with sourceOptional only -> as N:1; 1:1 with neither side optional ->
\* no column is added to any table.
C3_PlacementByCardinality ==
    [][IsResolveStep =>
        LET rel == rels[i] IN
        /\ (rel.cardinality # "N:M" /\ ~ResolverSkips(rel)) =>
                PlacesFkOn(OwnerOf(rel), FirstPK(ReferencedOf(rel)))
        /\ (rel.cardinality = "1:1" /\ ~rel.sourceOptional /\ ~rel.targetOptional) =>
                tables' = tables]_vars

\* C3 witness: a 1:1 relationship with only the source side optional has
\* been resolved and the source table holds the FK column made for it.
C3_Witness ==
    /\ pc = "create"
    /\ \E k \in 1..Len(rels) :
          /\ rels[k].cardinality = "1:1"
          /\ rels[k].sourceOptional /\ ~rels[k].targetOptional
          /\ \E c \in 1..Len(tables[IndexOf(rels[k].sourceTableId)].columns) :
                tables[IndexOf(rels[k].sourceTableId)].columns[c].id =
                    "fk-" \o rels[k].id \o "-" \o rels[k].sourceTableId

\* The Resolver has returned: `tables` is the resolved schema.
Resolved == pc \in {"create", "alter", "done", "resolved"}

\* The relationship is 1:N from a table with a single-column primary key.
OneToManyFromSinglePK(rel) ==
    /\ rel.cardinality = "1:N"
    /\ HasTable(rel.sourceTableId) /\ HasTable(rel.targetTableId)
    /\ Count(TableOf(rel.sourceTableId).columns, LAMBDA c : c.primaryKey) = 1

FkIdOf(rel) == "fk-" \o rel.id \o "-" \o OwnerOf(rel).id

\* A relationship that the Resolver does not skip and whose FK column goes
\* by this name on this table.
PlacesNameOn(rel, name, tableId) ==
    /\ rel.cardinality # "N:M" /\ ~ResolverSkips(rel)
    /\ OwnerOf(rel).id = tableId
    /\ FirstPK(ReferencedOf(rel)).name = name

LacksTableKeyOrColumn(rel) == ~EndpointsHavePK(rel) \/ ~ColumnIdsResolve(rel)

\* The column the Resolver made for the relationship is in its owner.
HasFkColumnOf(rel) ==
    \E c \in 1..Len(tables[IndexOf(OwnerOf(rel).id)].columns) :
        tables[IndexOf(OwnerOf(rel).id)].columns[c].id = FkIdOf(rel)

\* C6: when an endpoint table of a relationship is missing or has no
\* primaryKey column, or sourceColumnId/targetColumnId is the id of no
\* column of its table, the Resolver adds no column for the relationship
\* and raises no error, and it goes on with the next relationship: the
\* other relationships of the schema get their columns all the same.
C6_SkipsSilently ==
    /\ [][(pc = "resolve" /\ i <= Len(rels) /\ LacksTableKeyOrColumn(rels[i])) =>
            (tables' = tables /\ pc' = "resolve" /\ i' = i + 1)]_vars
    /\ [](Resolved =>
            \A k \in 1..Len(rels) :
                (rels[k].cardinality # "N:M" /\ ~ResolverSkips(rels[k])) =>
                    HasColumnNamed(tables[IndexOf(OwnerOf(rels[k]).id)],
                                   FirstPK(ReferencedOf(rels[k])).name))

\* C6 witness: the Resolver has returned, it skipped one relationship for a
\* dangling column id and added the column of a later one.
C6_Witness ==
    /\ pc = "resolved"
    /\ \E j \in 1..Len(rels) : \E k \in (j + 1)..Len(rels) :
          /\ EndpointsHavePK(rels[j]) /\ ~ColumnIdsResolve(rels[j])
          /\ rels[k].cardinality # "N:M" /\ ~ResolverSkips(rels[k])
          /\ HasFkColumnOf(rels[k])

\* generate is past its loop over the N:M relationships.
JunctionsDone == call = "generate" /\ pc \in {"resolve", "create", "alter", "done"}

\* The statement is the junction table of the N:M relationship: named
\* Source_Target, two NOT NULL columns named and typed after the first
\* primary key of the source and of the target, the composite PRIMARY KEY
\* over them in that order, and one FOREIGN KEY per column to the primary
\* key it copies.
IsJunctionOf(stmt, rel) ==
    LET S  == TableOf(rel.sourceTableId)
        T  == TableOf(rel.targetTableId)
        sp == FirstPK(S)
        tp == FirstPK(T)
    IN  /\ stmt.name = S.name \o "_" \o T.name
        /\ Len(stmt.columns) = 2
        /\ stmt.columns[1].name = sp.name /\ stmt.columns[1].type = mapDataType(sp.type)
        /\ stmt.columns[2].name = tp.name /\ stmt.columns[2].type = mapDataType(tp.type)
        /\ stmt.columns[1].notNull /\ stmt.columns[2].notNull
        /\ stmt.primaryKey = <<sp.name, tp.name>>
        /\ Len(stmt.foreignKeys) = 2
        /\ stmt.foreignKeys[1].column = sp.name
        /\ stmt.foreignKeys[1].refTable = S.name /\ stmt.foreignKeys[1].refColumn = sp.name
        /\ stmt.foreignKeys[2].column = tp.name
        /\ stmt.foreignKeys[2].refTable = T.name /\ stmt.foreignKeys[2].refColumn = tp.name

\* C7: an N:M relationship gets a junction table if and only if both
\* endpoint tables exist and each has a primaryKey column; the table is
\* named {source}_{target} and has exactly two NOT NULL columns named and
\* typed after the first primary key of the source and of the target, a
\* composite PRIMARY KEY over them in (source, target) order and two FOREIGN
\* KEY constraints to the originating tables' primary keys; any other N:M
\* relationship gets nothing.
C7_JunctionIffBothHavePK ==
    JunctionsDone =>
        LET synthesized == SelectSeq(mnRelationships, EndpointsHavePK)
        IN  /\ Len(JunctionCreates) = Len(synthesized)
            /\ \A k \in 1..Len(synthesized) :
                  IsJunctionOf(JunctionCreates[k], synthesized[k])

\* C7 witness: the text is complete and has the junction table of an N:M
\* relationship whose source table has two primaryKey columns and whose
\* column ids are dangling.
C7_Witness ==
    /\ pc = "done"
    /\ Len(JunctionCreates) >= 1
    /\ \E k \in 1..Len(mnRelationships) :
          /\ EndpointsHavePK(mnRelationships[k])
          /\ ~ColumnIdsResolve(mnRelationships[k])
          /\ Count(TableOf(mnRelationships[k].sourceTableId).columns,
                   LAMBDA c : c.primaryKey) = 2

\* The place of a statement in the order of the text.
Rank(stmt) ==
    IF stmt.kind = "HEADER" THEN 0
    ELSE IF IsJunctionCreate(stmt) THEN 1
    ELSE IF IsTableCreate(stmt) THEN 2
    ELSE 3

\* The ON DELETE or ON UPDATE clause of a referential action: none for
\* NO ACTION.
ActionClause(action) == IF action = "NO ACTION" THEN "" ELSE action

\* generateForeignKeyConstraint has a statement for the relationship.
HasConstraint(rel) == EndpointsHavePK(rel) /\ FkSide(rel) # "none"

\* C8: the statements of the text are in a fixed order: the header first,
\* then the junction CREATE TABLEs in the order of the N:M relationships,
\* then one CREATE TABLE per table of the schema in the order of the tables,
\* then the ALTER TABLEs in the order of the other relationships; no ALTER
\* TABLE is before a CREATE TABLE and no CREATE TABLE of a schema table is
\* before a junction CREATE TABLE.
C8_StatementOrder ==
    /\ call = "generate" /\ pc # "start" => Len(sql) >= 1 /\ sql[1].kind = "HEADER"
    /\ \A j \in 1..Len(sql) : \A k \in 1..Len(sql) :
          j < k => Rank(sql[j]) <= Rank(sql[k]) /\ sql[k].kind # "HEADER"
    /\ pc = "done" =>
          LET junctions   == SelectSeq(mnRelationships, EndpointsHavePK)
              constraints == SelectSeq(nonMNRelationships, HasConstraint)
          IN  /\ Len(JunctionCreates) = Len(junctions)
              /\ \A k \in 1..Len(junctions) :
                    JunctionCreates[k].name =
                        TableOf(junctions[k].sourceTableId).name \o "_" \o
                        TableOf(junctions[k].targetTableId).name
              /\ Len(TableCreates) = Len(schema.tables)
              /\ \A k \in 1..Len(schema.tables) :
                    TableCreates[k].name = schema.tables[k].name
              /\ Len(Alters) = Len(constraints)
              /\ \A k \in 1..Len(constraints) :
                    /\ Alters[k].table = OwnerOf(constraints[k]).name
                    /\ Alters[k].column = FirstPK(ReferencedOf(constraints[k])).name
                    /\ Alters[k].onDelete = ActionClause(constraints[k].onDelete)
                    /\ Alters[k].onUpdate = ActionClause(constraints[k].onUpdate)

\* C8 witness: a complete text with a junction CREATE TABLE, the CREATE
\* TABLEs of two schema tables and an ALTER TABLE.
C8_Witness ==
    /\ pc = "done"
    /\ Len(JunctionCreates) = 1
    /\ Len(TableCreates) = 2
    /\ TableCreates[1].name # TableCreates[2].name
    /\ Len(Alters) = 1

\* The order within a kind shows in a complete text with two junction CREATE
\* TABLEs of different names, and in one with two ALTER TABLEs on different
\* tables.
C8_TwoJunctions ==
    /\ pc = "done"
    /\ Len(JunctionCreates) = 2
    /\ JunctionCreates[1].name # JunctionCreates[2].name
C8_TwoAlters ==
    /\ pc = "done"
    /\ Len(Alters) = 2
    /\ Alters[1].table # Alters[2].table

\* The length of the loop generate is in, and an upper bound of the steps
\* generate has left: the phases left, each counted as longer than any
\* loop, and the iterations left in the current loop.
LoopLen ==
    CASE pc = "junction" -> Len(mnRelationships)
      [] pc = "resolve"  -> Len(rels)
      [] pc = "create"   -> Len(tables)
      [] pc = "alter"    -> Len(nonMNRelationships)
      [] OTHER           -> 0
PhasesLeft ==
    CASE pc = "start"    -> 5
      [] pc = "junction" -> 4
      [] pc = "resolve"  -> 3
      [] pc = "create"   -> 2
      [] pc = "alter"    -> 1
      [] OTHER           -> 0
StepsLeft ==
    PhasesLeft * (Len(schema.relationships) + Len(schema.tables) + 2)
    + (IF pc \in {"start", "done", "threw"} THEN 0 ELSE LoopLen + 1 - i)

\* The guard of a step of generate holds: of Header, of JunctionStep or
\* ResolveFromGenerate, of ResolveStep or ResolveReturnToGenerate, of
\* CreateStep, of AlterStep or Return.
HasNextStep ==
    \/ pc = "start"
    \/ pc = "junction" /\ (i <= Len(mnRelationships) \/ i > Len(mnRelationships))
    \/ pc = "resolve" /\ (i <= Len(rels) \/ (call = "generate" /\ i > Len(rels)))
    \/ pc = "create" /\ i <= Len(tables)
    \/ pc = "alter" /\ (i <= Len(nonMNRelationships) \/ i > Len(nonMNRelationships))

\* C9: generate is total: whatever the schema (relationships to missing
\* tables or columns, tables without a primary key or without columns,
\* empty lists), no step of generate throws, every step that is not the
\* return has a next step, every step brings the return nearer, and what is
\* returned is a text that starts with the header.
C9_GenerateIsTotal ==
    /\ [](/\ pc # "threw"
          /\ pc # "done" => HasNextStep
          /\ StepsLeft >= 0
          /\ pc = "done" => Len(sql) >= 1 /\ sql[1].kind = "HEADER")
    /\ [][StepsLeft' < StepsLeft]_vars

\* C9 witness: generate has returned for a schema that has a table without
\* columns, a relationship to a missing table, and no primary key.
C9_Witness ==
    /\ pc = "done"
    /\ \E k \in 1..Len(schema.tables) : Len(schema.tables[k].columns) = 0
    /\ \E k \in 1..Len(schema.relationships) :
          /\ schema.relationships[k].cardinality # "N:M"
          /\ ~HasTable(schema.relationships[k].targetTableId)
    /\ \A k \in 1..Len(schema.tables) : ~HasPK(schema.tables[k])

\* generate has returned for a schema without tables and relationships, and
\* for one with a relationship between a table with a primary key and one
\* without.
C9_EmptySchema ==
    pc = "done" /\ schema.tables = <<>> /\ schema.relationships = <<>>
C9_OneSideWithoutKey ==
    /\ pc = "done"
    /\ \E k \in 1..Len(schema.relationships) :
          LET rel == schema.relationships[k]
          IN  /\ rel.cardinality # "N:M"
              /\ HasTable(rel.sourceTableId) /\ HasTable(rel.targetTableId)
              /\ HasPK(TableOf(rel.sourceTableId)) # HasPK(TableOf(rel.targetTableId))

\* A second call of generate has returned.
ReturnedAgain == call = "generate" /\ pc = "done" /\ calls >= 2

\* The statement without the time on the Generated line of the header.
WithoutTime(stmt) ==
    IF stmt.kind = "HEADER" THEN [kind |-> stmt.kind, dialect |-> stmt.dialect]
    ELSE stmt

C10_SameSecond ==
    /\ ReturnedAgain
    /\ clock = 1
    /\ sql = prevSql /\ Len(sql) >= 2

\* The columns of the table are the first columns of the other's, in order.
ColumnsPrefixOf(t, u) ==
    /\ Len(t.columns) <= Len(u.columns)
    /\ \A k \in 1..Len(t.columns) : u.columns[k] = t.columns[k]

IsFkColumnOf(col, rel) ==
    /\ EndpointsHavePK(rel) /\ FkSide(rel) # "none"
    /\ col.id = FkIdOf(rel)
    /\ col.primaryKey = FALSE
    /\ col.autoIncrement = FALSE
    /\ col.nullable = (rel.sourceOptional \/ rel.targetOptional)
    /\ col.unique = (rel.cardinality = "1:1")
    /\ col.type = FirstPK(ReferencedOf(rel)).type

\* C12: every column the Resolver has added (the columns of a returned
\* table after those the caller's table has) is the FK column of one of the
\* relationships: primaryKey false, autoIncrement false, nullable exactly
\* when the source or the target side is optional, unique exactly when the
\* cardinality is 1:1, and its logical type that of the referenced primary
\* key.
C12_FkColumnAttributes ==
    call = "generate" /\ Resolved =>
        \A k \in 1..Len(tables) :
            \A j \in (Len(schema.tables[k].columns) + 1)..Len(tables[k].columns) :
                \E r \in 1..Len(rels) : IsFkColumnOf(tables[k].columns[j], rels[r])

\* C12 witness: the Resolver has returned a table with the FK column of a
\* relationship whose source side only is optional, copied from a TEXT
\* primary key.
C12_Witness ==
    /\ call = "generate" /\ Resolved
    /\ \E k \in 1..Len(tables) :
          \E j \in (Len(schema.tables[k].columns) + 1)..Len(tables[k].columns) :
              \E r \in 1..Len(rels) :
                  /\ IsFkColumnOf(tables[k].columns[j], rels[r])
                  /\ rels[r].sourceOptional /\ ~rels[r].targetOptional
                  /\ tables[k].columns[j].type = "TEXT"

\* The column definition renders the column as the claim C13 has it: the
\* name, the mapped type, the autoincrement marker if the type is the
\* auto-increment type, NOT NULL unless nullable, UNIQUE if unique and not
\* primaryKey.
RendersByType(def, column) ==
    /\ def.name = column.name
    /\ def.type = mapDataType(column.type)
    /\ def.counter = (column.type = "AUTOINCREMENT")
    /\ def.notNull = ~column.nullable
    /\ def.unique = (column.unique /\ ~column.primaryKey)

\* C13: every column definition of the CREATE TABLE of a table of the
\* resolved schema is the column's name, its mapped type, the autoincrement
\* marker if its type is the auto-increment type, NOT NULL unless it is
\* nullable and UNIQUE if it is unique and not primaryKey, FK columns the
\* Resolver copied from an auto-increment primary key included.
C13_ColumnRenderedByType ==
    call = "generate" /\ pc = "done" =>
        \A k \in 1..Len(tables) :
            /\ Len(TableCreates[k].columns) = Len(tables[k].columns)
            /\ \A j \in 1..Len(tables[k].columns) :
                  RendersByType(TableCreates[k].columns[j], tables[k].columns[j])

\* The statement without the Dialect line of the header.
WithoutDialect(stmt) ==
    IF stmt.kind = "HEADER" THEN [kind |-> stmt.kind, generated |-> stmt.generated]
    ELSE stmt

\* The one fixed table of the logical types, and the mapping the claim C14
\* states: by the table, and VARCHAR(255) for a type that is not in it.
TypeTable ==
    [TEXT |-> "VARCHAR(255)", INTEGER |-> "INTEGER", LONG |-> "LONG",
     DOUBLE |-> "DOUBLE", CURRENCY |-> "CURRENCY", DATETIME |-> "DATETIME",
     BOOLEAN |-> "BIT", AUTOINCREMENT |-> "COUNTER", MEMO |-> "LONGTEXT",
     OLE |-> "OLEOBJECT"]
MappedByTable(type) ==
    IF type \in DOMAIN TypeTable THEN TypeTable[type] ELSE "VARCHAR(255)"

\* The two texts are the same apart from the Dialect line of the header.
SameApartFromDialectLine ==
    /\ Len(sql) = Len(prevSql)
    /\ \A k \in 1..Len(sql) : WithoutDialect(sql[k]) = WithoutDialect(prevSql[k])

\* Every type in the text is the one the fixed table gives the column's
\* logical type, VARCHAR(255) for a type the table does not have.
TypesMappedByTable ==
    /\ \A k \in 1..Len(tables) : \A j \in 1..Len(tables[k].columns) :
          TableCreates[k].columns[j].type = MappedByTable(tables[k].columns[j].type)
    /\ \A k \in 1..Len(JunctionCreates) :
          LET rel == SelectSeq(mnRelationships, EndpointsHavePK)[k]
          IN  /\ JunctionCreates[k].columns[1].type =
                    MappedByTable(FirstPK(TableOf(rel.sourceTableId)).type)
              /\ JunctionCreates[k].columns[2].type =
                    MappedByTable(FirstPK(TableOf(rel.targetTableId)).type)

\* C14: the statements do not depend on the dialect: for the same schema
\* the generators of two dialects return the same text apart from the
\* Dialect line of the header, and every logical type is mapped by the one
\* fixed table, a type that is not in the table to VARCHAR(255).
C14_DialectIndependentFixedTypes ==
    call = "generate" /\ pc = "done" =>
        /\ sql[1].dialect = dialect
        /\ calls >= 2 => SameApartFromDialectLine
        /\ TypesMappedByTable

\* The part of C14 about the dialect alone.
C14_SameStatementsForEveryDialect ==
    ReturnedAgain => sql[1].dialect = dialect /\ SameApartFromDialectLine

\* The part of C14 about the types, for the types of DataType and for a
\* type name that no object has a property of.
C14_KnownAndUnknownTypesByTable ==
    call = "generate" /\ pc = "done"
    /\ FirstPK(schema.tables[1]).type \notin InheritedNames
        => TypesMappedByTable

\* generate has returned for a second dialect and for a schema with a
\* junction table whose primary key has a type name that is not in the
\* table.
C14_ReachedOtherDialect ==
    /\ ReturnedAgain
    /\ sql[1].dialect # prevSql[1].dialect
    /\ Len(JunctionCreates) = 1
    /\ FirstPK(schema.tables[1]).type = "GUID"

\* The entity is the conceptual form of the table it still carries: one
\* attribute per column, in order, with the column's id and name, PRIMARY
\* for a primaryKey column and NORMAL for another, and the column's logical
\* type kept.
IsConceptualOf(entity, table) ==
    /\ entity.id = table.id /\ entity.name = table.name
    /\ Len(entity.attributes) = Len(table.columns)
    /\ \A j \in 1..Len(table.columns) :
          /\ entity.attributes[j].id = table.columns[j].id
          /\ entity.attributes[j].name = table.columns[j].name
          /\ entity.attributes[j].type = (IF table.columns[j].primaryKey THEN "PRIMARY" ELSE "NORMAL")
          /\ entity.attributes[j].dataType = table.columns[j].type

\* The two tables have the same id and name and, column by column in the
\* same order, the same column id, name and logical type.
SameTable(t, u) ==
    /\ t.id = u.id /\ t.name = u.name
    /\ Len(t.columns) = Len(u.columns)
    /\ \A j \in 1..Len(t.columns) :
          /\ t.columns[j].id = u.columns[j].id
          /\ t.columns[j].name = u.columns[j].name
          /\ t.columns[j].type = u.columns[j].type

\* C15: round trip.  The LOGICAL -> CONCEPTUAL toggle turns every table T
\* into the entity that is the conceptual form of T (and that carries T),
\* and the CONCEPTUAL -> LOGICAL toggle turns every entity that is the
\* conceptual form of the table T it carries into a table equal to T: the
\* same table id and name and, column by column in the same order, the same
\* column id, name and logical type.
C15_RoundTrip ==
    [][/\ schemaMode = "LOGICAL" /\ schemaMode' = "CONCEPTUAL" =>
            \A k \in 1..Len(nodes) : nodes[k].type = "tableNode" =>
                \E j \in 1..Len(nodes') :
                    /\ nodes'[j].id = nodes[k].id
                    /\ nodes'[j].type = "entityNode"
                    /\ nodes'[j].data.columns = nodes[k].data.columns
                    /\ IsConceptualOf(nodes'[j].data, nodes[k].data)
       /\ schemaMode = "CONCEPTUAL" /\ schemaMode' = "LOGICAL" =>
            \A k \in 1..Len(nodes) :
                nodes[k].type = "entityNode" /\ IsConceptualOf(nodes[k].data, nodes[k].data) =>
                    \E j \in 1..Len(nodes') :
                        /\ nodes'[j].id = nodes[k].id
                        /\ nodes'[j].type = "tableNode"
                        /\ SameTable(nodes'[j].data, nodes[k].data)]_vars

\* C15 witness: the editor is back in LOGICAL mode after the two toggles,
\* with a table whose columns are an AUTOINCREMENT primary key and an
\* INTEGER column that is not one.
C15_Witness ==
    /\ schemaMode = "LOGICAL"
    /\ \E k \in 1..Len(nodes) :
          /\ nodes[k].type = "tableNode"
          /\ "attributes" \in DOMAIN nodes[k].data
          /\ Len(nodes[k].data.columns) = 2
          /\ nodes[k].data.columns[1].type = "AUTOINCREMENT" /\ nodes[k].data.columns[1].primaryKey
          /\ nodes[k].data.columns[2].type = "INTEGER" /\ ~nodes[k].data.columns[2].primaryKey
          /\ IsConceptualOf(nodes[k].data, nodes[k].data)

\* The step is handleCreateJunctionTable: a gesture that adds a node.
IsMaterializeStep == clock' = clock + 1 /\ Len(nodes') = Len(nodes) + 1

\* The table, among the tables of the editor, with the id.
EditorTable(id) ==
    LET tbls == dataOf(tableNodes)
    IN  tbls[CHOOSE k \in 1..Len(tbls) : tbls[k].id = id]

\* The step inserts the table the Junction Synthesizer produces for an N:M
\* relationship between the two tables (the same name and two primary-key
\* columns with the names and types of the columns of the synthesized
\* table), and two 1:N relationships, one from each of the two tables to
\* the new table, and nothing else.
InsertsSynthesizedJunction ==
    LET newTable == nodes'[Len(nodes')].data
        n        == Len(relationships)
        rel1     == relationships'[n + 1]
        rel2     == relationships'[n + 2]
        S        == EditorTable(rel1.sourceTableId)
        T        == EditorTable(rel2.sourceTableId)
        stmt     == generateJunctionTable(
                        Rel(S.id, "", T.id, "", "N:M", FALSE, FALSE, "NO ACTION", "NO ACTION"),
                        dataOf(tableNodes))
    IN  /\ Len(relationships') = n + 2
        /\ SubSeq(nodes', 1, Len(nodes)) = nodes
        /\ SubSeq(relationships', 1, n) = relationships
        /\ stmt # EmptySql
        /\ newTable.name = stmt.name
        /\ Len(newTable.columns) = 2
        /\ \A j \in 1..2 :
              /\ newTable.columns[j].primaryKey
              /\ newTable.columns[j].name = stmt.columns[j].name
              /\ mapDataType(newTable.columns[j].type) = stmt.columns[j].type
        /\ newTable.columns[1].type = FirstPK(S).type
        /\ newTable.columns[2].type = FirstPK(T).type
        /\ rel1.cardinality = "1:N" /\ rel1.targetTableId = newTable.id
        /\ rel2.cardinality = "1:N" /\ rel2.targetTableId = newTable.id

\* C16: handleCreateJunctionTable inserts into the schema of the editor the
\* table the Junction Synthesizer produces for the N:M relationship (the
\* same name, two primary-key columns with the names and types of the
\* primary keys of the two tables) and exactly two 1:N relationships, one
\* from each of the two tables to the new table; like the synthesizer it
\* inserts nothing when one of the two tables has no primary key.
C16_MaterializesSynthesizedJunction ==
    [][IsMaterializeStep => InsertsSynthesizedJunction]_vars

\* A step of the connection gesture: one relationship more, at the next tick.
IsConnectStep ==
    /\ clock' = clock + 1
    /\ Len(relationships') = Len(relationships) + 1

\* The gesture added a column to the k-th node.
GainsColumn(k) == Len(nodes'[k].data.columns) = Len(nodes[k].data.columns) + 1

\* The name the Resolver gives the FK column of the relationship rel between
\* the tables S and T (sqlGenerator.ts 73-86 for 1:N).
ResolverFkName(rel, S, T) ==
    fkPlacement(rel, find(S.columns, LAMBDA c : c.primaryKey),
                     find(T.columns, LAMBDA c : c.primaryKey)).fkColumnName

\* C17: one naming policy in both paths. The FK column that onConnect adds to
\* the target table of the 1:N relationship it creates has the name that the
\* Resolver of DDL generation uses for the FK column of that relationship
\* (same source table, same primary key).
C17_OneFkNamingPolicy ==
    [][IsConnectStep =>
         \A k \in 1..Len(nodes) :
            GainsColumn(k) =>
               LET rel == relationships'[Len(relationships')]
                   S   == nodes[CHOOSE s \in 1..Len(nodes) : nodes[s].id = rel.sourceTableId].data
                   T   == nodes[k].data
                   col == nodes'[k].data.columns[Len(nodes'[k].data.columns)]
               IN  /\ rel.cardinality = "1:N"
                   /\ nodes[k].id = rel.targetTableId
                   /\ col.name = ResolverFkName(rel, S, T)]_vars

\* The findings of the panel, of both lists.
Findings ==
    {recommendations[k] : k \in 1..Len(recommendations)}
        \cup {validationIssues[k] : k \in 1..Len(validationIssues)}

\* The positions of the high-severity validation issues with the given id.
HighIssues(id) ==
    {k \in 1..Len(validationIssues) :
        validationIssues[k].severity = "high" /\ validationIssues[k].id = id}

\* The ids that the five checks of LOGICAL mode give their findings, for the
\* nodes and relationships of the editor.
LogicalFindingIds ==
    UNION {{"val-nopk-" \o nodes[k].id, "val-dupcol-" \o nodes[k].id,
            "rec-textlen-" \o nodes[k].id} : k \in 1..Len(nodes)}
        \cup UNION {{"rec-nm-" \o relationships[k].id, "rec-index-" \o relationships[k].id} :
                       k \in 1..Len(relationships)}

HasPrimaryAttribute(entity) ==
    \E k \in 1..Len(entity.attributes) : entity.attributes[k].type = "PRIMARY"

\* C18, LOGICAL mode: the high-severity validation issues are one per table
\* without a primaryKey column, about that table, and no other.
C18_Logical ==
    schemaMode = "LOGICAL" =>
        LET tbls == dataOf(tableNodes)
        IN  /\ \A k \in 1..Len(tbls) :
                  /\ Cardinality(HighIssues("val-nopk-" \o tbls[k].id))
                        = IF HasPK(tbls[k]) THEN 0 ELSE 1
                  /\ \A j \in HighIssues("val-nopk-" \o tbls[k].id) :
                        /\ validationIssues[j].type = "no_primary_key"
                        /\ validationIssues[j].action.table = tbls[k]
            /\ \A j \in 1..Len(validationIssues) :
                  validationIssues[j].severity = "high" =>
                     \E k \in 1..Len(tbls) : validationIssues[j].id = "val-nopk-" \o tbls[k].id

\* C18, CONCEPTUAL mode: the high-severity validation issues are one per
\* entity without a PRIMARY attribute and no other, and no finding is one of
\* a check of LOGICAL mode.
C18_Conceptual ==
    schemaMode = "CONCEPTUAL" =>
        LET ents == dataOf(entityNodes)
        IN  /\ \A k \in 1..Len(ents) :
                  Cardinality(HighIssues("conc-nopk-" \o ents[k].id))
                     = IF HasPrimaryAttribute(ents[k]) THEN 0 ELSE 1
            /\ \A j \in 1..Len(validationIssues) :
                  validationIssues[j].severity = "high" =>
                     \E k \in 1..Len(ents) : validationIssues[j].id = "conc-nopk-" \o ents[k].id
            /\ \A f \in Findings :
                  /\ f.id \notin LogicalFindingIds
                  /\ f.type \notin {"duplicate_columns", "missing_index", "text_length"}

\* C18: in LOGICAL mode analyze reports exactly one high-severity validation
\* issue for each table without a primaryKey column and none for a table with
\* one; in CONCEPTUAL mode it reports exactly one high-severity validation
\* issue for each entity without a PRIMARY attribute and no finding of the
\* checks of LOGICAL mode.
C18_OneIssuePerMissingKey == C18_Logical /\ C18_Conceptual

\* A LOGICAL schema with a table without a primary key next to one with a
\* primary key, analysed.
C18_Witness ==
    /\ schemaMode = "LOGICAL"
    /\ \E j \in 1..Len(nodes) : \E k \in 1..Len(nodes) :
          /\ nodes[j].type = "tableNode" /\ nodes[k].type = "tableNode"
          /\ HasPK(nodes[j].data) /\ ~HasPK(nodes[k].data)
          /\ HighIssues("val-nopk-" \o nodes[k].id) # {}
          /\ HighIssues("val-nopk-" \o nodes[j].id) = {}

\* A CONCEPTUAL schema with an entity without a PRIMARY attribute next to one
\* with a PRIMARY attribute, analysed.
C18_ConceptualEntities ==
    /\ schemaMode = "CONCEPTUAL"
    /\ \E j \in 1..Len(nodes) : \E k \in 1..Len(nodes) :
          /\ nodes[j].type = "entityNode" /\ nodes[k].type = "entityNode"
          /\ HasPrimaryAttribute(nodes[j].data) /\ ~HasPrimaryAttribute(nodes[k].data)
          /\ HighIssues("conc-nopk-" \o nodes[k].id) # {}

\* A CONCEPTUAL editor that holds tables without a primary key and an N:M
\* relationship between them: the checks of LOGICAL mode would report them.
C18_ConceptualWithTables ==
    /\ schemaMode = "CONCEPTUAL"
    /\ \E k \in 1..Len(nodes) : nodes[k].type = "tableNode" /\ ~HasPK(nodes[k].data)
    /\ nmRecommendations(dataOf(tableNodes), relationships) # <<>>

\* The positions of the high-severity recommendations that offer to
\* materialize the junction table of the relationship rel, bound to the
\* source and target tables of rel.
MaterializeRecommendations(rel) ==
    LET tbls == dataOf(tableNodes)
    IN  {j \in 1..Len(recommendations) :
            /\ recommendations[j].id = "rec-nm-" \o rel.id
            /\ recommendations[j].type = "n_m_relationship"
            /\ recommendations[j].severity = "high"
            /\ recommendations[j].action.handler = "onCreateJunctionTable"
            /\ recommendations[j].action.sourceTable = find(tbls, LAMBDA t : t.id = rel.sourceTableId)
            /\ recommendations[j].action.targetTable = find(tbls, LAMBDA t : t.id = rel.targetTableId)}

\* The positions of the recommendations of check 1 for the relationship rel,
\* whatever they hold.
NmRecommendations(rel) ==
    {j \in 1..Len(recommendations) : recommendations[j].id = "rec-nm-" \o rel.id}

\* Both tables of the relationship are tables of the editor.
EndpointsFound(rel) ==
    /\ \E k \in 1..Len(nodes) : nodes[k].type = "tableNode" /\ nodes[k].id = rel.sourceTableId
    /\ \E k \in 1..Len(nodes) : nodes[k].type = "tableNode" /\ nodes[k].id = rel.targetTableId

\* C19 as stated: in LOGICAL mode analyze produces one high-severity
\* recommendation with the materialize remediation, bound to the source and
\* target tables, for every N:M relationship, and none for a relationship of
\* another cardinality.
C19_RecommendationForEveryNm ==
    schemaMode = "LOGICAL" =>
        \A k \in 1..Len(relationships) :
            LET rel == relationships[k]
            IN  IF rel.cardinality = "N:M"
                THEN Cardinality(MaterializeRecommendations(rel)) = 1
                ELSE NmRecommendations(rel) = {}

\* C19 with the condition of the code: in LOGICAL mode analyze produces one
\* high-severity recommendation with the materialize remediation, bound to
\* the source and target tables, for every N:M relationship whose source and
\* target tables are both in the schema, and none for any other relationship.
C19_RecommendationForNmBetweenTables ==
    schemaMode = "LOGICAL" =>
        \A k \in 1..Len(relationships) :
            LET rel == relationships[k]
            IN  IF rel.cardinality = "N:M" /\ EndpointsFound(rel)
                THEN /\ Cardinality(MaterializeRecommendations(rel)) = 1
                     /\ NmRecommendations(rel) = MaterializeRecommendations(rel)
                ELSE NmRecommendations(rel) = {}

\* A LOGICAL schema with an N:M relationship between two of its tables and
\* a relationship of another cardinality, analysed.
C19_Witness ==
    /\ schemaMode = "LOGICAL"
    /\ \E j \in 1..Len(relationships) : \E k \in 1..Len(relationships) :
          /\ relationships[j].cardinality = "N:M"
          /\ EndpointsFound(relationships[j])
          /\ MaterializeRecommendations(relationships[j]) # {}
          /\ relationships[k].cardinality # "N:M"
          /\ EndpointsFound(relationships[k])

\* A LOGICAL schema with an N:M relationship one of whose tables is missing.
C19_DanglingNm ==
    /\ schemaMode = "LOGICAL"
    /\ \E j \in 1..Len(relationships) :
          /\ relationships[j].cardinality = "N:M"
          /\ ~EndpointsFound(relationships[j])

(* DDL generation from the editor, next to the panel *)

\* generateSQL (part_000 lines 745-754): the tables of the table nodes and
\* the relationships of the editor are handed to generate.
GenerateSQL ==
    /\ call = "none" /\ pc = "idle"
    /\ schema' = [tables |-> dataOf(tableNodes), relationships |-> relationships]
    /\ call' = "generate"
    /\ pc' = "start"
    /\ UNCHANGED <<dialect, clock, i, rels, tables, sql, first, prevSql, calls>>
    /\ UNCHANGED editorVars

\* The editor in LOGICAL mode after the import of a file, analysed by the
\* panel; generate has not been called.
InitAdvise ==
    /\ schema = [tables |-> <<>>, relationships |-> <<>>]
    /\ dialect \in Dialects
    /\ clock = 0
    /\ call = "none"
    /\ pc = "idle"
    /\ i = 0
    /\ rels = <<>>
    /\ tables = <<>>
    /\ sql = <<>>
    /\ first = <<>>
    /\ prevSql = <<>>
    /\ calls = 0
    /\ \E data \in Schemas :
          /\ nodes = [k \in 1..Len(data.tables) |-> fileNode(data.tables[k], positionOf(k - 1))]
          /\ edges = [k \in 1..Len(data.relationships) |-> edgeOf(data.relationships[k])]
          /\ relationships = data.relationships
    /\ schemaMode = "LOGICAL"
    /\ tableModal = ClosedModal
    /\ LET found == analyzeSchema(dataOf(tableNodes), dataOf(entityNodes),
                                  relationships, conceptualRelationships, schemaMode)
       IN  /\ recommendations = found.recommendations
           /\ validationIssues = found.validationIssues

NextAdvise == GenerateSQL \/ Next

SpecAdvise == InitAdvise /\ [][NextAdvise]_vars

\* The step of generate that emits no junction table for the N:M
\* relationship it looks at.
OmitsJunction ==
    /\ call = "generate" /\ pc = "junction" /\ i <= Len(mnRelationships)
    /\ i' = i + 1 /\ sql' = sql

\* The step of the Resolver that adds no column for the relationship it
\* looks at.
OmitsFkColumn ==
    /\ call = "generate" /\ pc = "resolve" /\ i <= Len(rels)
    /\ i' = i + 1 /\ tables' = tables

\* The three situations that generate handles by omission.
MissingPrimaryKey(rel) ==
    /\ HasTable(rel.sourceTableId) /\ HasTable(rel.targetTableId)
    /\ ~HasPK(TableOf(rel.sourceTableId)) \/ ~HasPK(TableOf(rel.targetTableId))
DanglingColumnReference(rel) ==
    /\ HasTable(rel.sourceTableId) /\ HasTable(rel.targetTableId)
    /\ ~ColumnIdsResolve(rel)
BothSidesRequired(rel) ==
    /\ EndpointsHavePK(rel) /\ ColumnIdsResolve(rel)
    /\ rel.cardinality = "1:1" /\ ~rel.sourceOptional /\ ~rel.targetOptional

\* The panel holds a finding about the relationship or about one of its two
\* tables.
Surfaced(rel) ==
    \E f \in Findings :
        f.id \in {"rec-nm-" \o rel.id, "rec-index-" \o rel.id,
                  "val-nopk-" \o rel.sourceTableId, "val-nopk-" \o rel.targetTableId,
                  "val-dupcol-" \o rel.sourceTableId, "val-dupcol-" \o rel.targetTableId,
                  "rec-textlen-" \o rel.sourceTableId, "rec-textlen-" \o rel.targetTableId}

\* C20: every omission of DDL generation is surfaced. Whenever generate
\* emits no junction table for an N:M relationship because a table has no
\* primary key, or the Resolver adds no FK column for a relationship because
\* of a missing primary key, a dangling column reference or a 1:1
\* relationship with both sides required, the panel in LOGICAL mode on the
\* same schema holds a finding about the relationship or one of its tables.
C20_OmissionsSurfaced ==
    [][/\ (OmitsJunction /\ MissingPrimaryKey(mnRelationships[i]))
            => Surfaced(mnRelationships[i])
       /\ (OmitsFkColumn /\ (\/ MissingPrimaryKey(rels[i])
                              \/ DanglingColumnReference(rels[i])
                              \/ BothSidesRequired(rels[i])))
            => Surfaced(rels[i])]_vars

\* The part of C20 about a missing primary key alone: the omission is
\* surfaced by the no_primary_key issue of the table.
C20_MissingKeySurfaced ==
    [][/\ (OmitsJunction /\ MissingPrimaryKey(mnRelationships[i]))
            => Surfaced(mnRelationships[i])
       /\ (OmitsFkColumn /\ MissingPrimaryKey(rels[i]))
            => \E f \in Findings :
                   f.id \in {"val-nopk-" \o rels[i].sourceTableId,
                             "val-nopk-" \o rels[i].targetTableId}]_vars

\* The part of C20 about a dangling column reference alone.
C20_DanglingReferenceSurfaced ==
    [][(OmitsFkColumn /\ DanglingColumnReference(rels[i])) => Surfaced(rels[i])]_vars

\* The part of C20 about a 1:1 relationship with both sides required alone.
C20_BothRequiredSurfaced ==
    [][(OmitsFkColumn /\ BothSidesRequired(rels[i])) => Surfaced(rels[i])]_vars

(* The table dialog and the other handlers of the canvas *)

\* The number of events of the user that a behaviour of the canvas holds:
\* every event is later than the one before it, by the clock.
MaxEvents == 3

\* What the user types and picks in the dialogs.
NameInputs == {"id", "code "}
TypeInputs == {"AUTOINCREMENT", "INTEGER", "TEXT"}

\* String.prototype.trim, on the names above.
trim(name) ==
    CASE name = "code " -> "code"
      [] name = " "     -> ""
      [] OTHER          -> name

\* TableModal, the effect of lines 68-76: the dialog shows the table it is
\* opened on, with a copy of its columns.
OpenModal(table) ==
    [show |-> TRUE, table |-> table, tableName |-> table.name, columns |-> table.columns]

\* handleAddTable (part_000 lines 210-232), the table it opens the dialog on;
\* the name is the Russian for "New table".
newTable ==
    [id      |-> "table-" \o now,
     name    |-> "New table",
     columns |-> << [id |-> "col-" \o now, name |-> "id", type |-> "INTEGER",
                     primaryKey |-> TRUE, nullable |-> FALSE, unique |-> TRUE,
                     autoIncrement |-> FALSE] >>]

\* handleAddColumn (EdgeLabel.tsx lines 78-89).
handleAddColumn(columns) ==
    Append(columns, [id |-> "col-" \o now, name |-> "", type |-> "TEXT",
                     primaryKey |-> FALSE, nullable |-> TRUE, unique |-> FALSE,
                     autoIncrement |-> FALSE])

\* A variant of handleColumnChange whose primary-key branch leaves the
\* nullable flag alone.
handleColumnChange_KeyKeepsNullable(columns, index, field, value) ==
    LET col    == columns[index]
        set(c) == [columns EXCEPT ![index] = c]
    IN  CASE field = "primaryKey" ->
               IF value /\ col.autoIncrement THEN columns
               ELSE IF value
                    THEN set([col EXCEPT !.primaryKey = TRUE, !.unique = TRUE])
                    ELSE set([col EXCEPT !.primaryKey = FALSE])
          [] field = "type" ->
               IF value = "AUTOINCREMENT"
               THEN set([col EXCEPT !.type = value, !.autoIncrement = TRUE, !.primaryKey = TRUE,
                                    !.nullable = FALSE, !.unique = TRUE])
               ELSE IF col.autoIncrement
                    THEN set([col EXCEPT !.type = value, !.autoIncrement = FALSE])
                    ELSE set([col EXCEPT !.type = value])
          [] field = "nullable" ->
               IF col.primaryKey /\ value THEN columns
               ELSE set([col EXCEPT !.nullable = value])
          [] field = "unique" -> set([col EXCEPT !.unique = value])
          [] field = "name" -> set([col EXCEPT !.name = value])
          [] OTHER -> columns

\* handleColumnChange (EdgeLabel.tsx lines 91-137): the columns of the dialog
\* after the change of one field of the column at index (from 1); an early
\* return leaves them as they are.
handleColumnChange(columns, index, field, value) ==
    LET col    == columns[index]
        set(c) == [columns EXCEPT ![index] = c]
    IN  CASE field = "primaryKey" ->
               IF value /\ col.autoIncrement THEN columns
               ELSE IF value
                    THEN set([col EXCEPT !.primaryKey = TRUE, !.nullable = FALSE, !.unique = TRUE])
                    ELSE set([col EXCEPT !.primaryKey = FALSE])
          [] field = "type" ->
               IF value = "AUTOINCREMENT"
               THEN set([col EXCEPT !.type = value, !.autoIncrement = TRUE, !.primaryKey = TRUE,
                                    !.nullable = FALSE, !.unique = TRUE])
               ELSE IF col.autoIncrement
                    THEN set([col EXCEPT !.type = value, !.autoIncrement = FALSE])
                    ELSE set([col EXCEPT !.type = value])
          [] field = "nullable" ->
               IF col.primaryKey /\ value THEN columns
               ELSE set([col EXCEPT !.nullable = value])
          [] field = "unique" -> set([col EXCEPT !.unique = value])
          [] field = "name" -> set([col EXCEPT !.name = value])
          [] OTHER -> columns

\* handleDeleteColumn (EdgeLabel.tsx lines 139-141), index from 1.
handleDeleteColumn(columns, index) ==
    [k \in 1..(Len(columns) - 1) |-> IF k < index THEN columns[k] ELSE columns[k + 1]]

\* handleSave of the dialog (EdgeLabel.tsx lines 143-169): whether it hands
\* a table to onSave, and the table.
savesTable(modal) ==
    /\ trim(modal.tableName) # ""
    /\ Len(modal.columns) # 0
    /\ \A k \in 1..Len(modal.columns) : trim(modal.columns[k].name) # ""
savedTable(modal) ==
    [id      |-> modal.table.id,
     name    |-> trim(modal.tableName),
     columns |-> [k \in 1..Len(modal.columns) |->
                    [modal.columns[k] EXCEPT !.name = trim(modal.columns[k].name)]]]

\* handleSaveTable (part_000 lines 391-423): the nodes after the save.
handleSaveTable(table) ==
    IF find(nodes, LAMBDA n : n.id = table.id) # Undefined
    THEN [k \in 1..Len(nodes) |->
            IF nodes[k].id = table.id
            THEN [nodes[k] EXCEPT !.data = table, !.callbacks = TRUE]
            ELSE nodes[k]]
    ELSE Append(nodes, tableNode(table, positionOf(Len(tableNodes))))

\* handleAddConstraint (part_000 lines 717-736): the nodes after it.
handleAddConstraint(table, constraintType) ==
    IF constraintType = "PRIMARY_KEY" /\ Len(table.columns) > 0
    THEN LET updatedTable ==
                [table EXCEPT !.columns = [idx \in 1..Len(table.columns) |->
                    [table.columns[idx] EXCEPT !.primaryKey = (idx = 1),
                                               !.nullable = (idx # 1)]]]
         IN  [k \in 1..Len(nodes) |->
                IF nodes[k].id = table.id
                THEN [nodes[k] EXCEPT !.data = updatedTable, !.callbacks = TRUE]
                ELSE nodes[k]]
    ELSE nodes

\* What an event of the dialog leaves alone: the canvas and the panel.
canvasVars == <<nodes, edges, relationships, schemaMode, recommendations, validationIssues>>

\* The "+ table" button, shown in LOGICAL mode (lines 981-984).
AddTable ==
    /\ clock < MaxEvents /\ ~tableModal.show
    /\ schemaMode = "LOGICAL"
    /\ tableModal' = OpenModal(newTable)
    /\ clock' = clock + 1
    /\ UNCHANGED <<canvasVars, generatorVars>>

\* A click on the header of a table node (part_002 lines 373-378,
\* part_000 lines 373-380).
EditTable ==
    /\ clock < MaxEvents /\ ~tableModal.show
    /\ \E k \in 1..Len(nodes) :
          /\ nodes[k].type = "tableNode" /\ nodes[k].callbacks
          /\ tableModal' = OpenModal(nodes[k].data)
    /\ clock' = clock + 1
    /\ UNCHANGED <<canvasVars, generatorVars>>

\* The "+ column" button of the dialog.
AddColumn ==
    /\ clock < MaxEvents /\ tableModal.show
    /\ Len(tableModal.columns) < MaxCols
    /\ tableModal' = [tableModal EXCEPT !.columns = handleAddColumn(@)]
    /\ clock' = clock + 1
    /\ UNCHANGED <<canvasVars, generatorVars>>

\* The controls of a column of the dialog (EdgeLabel.tsx lines 196-238):
\* the name and type take an input, a checkbox passes the opposite of the
\* flag it shows; the PK checkbox is disabled on an auto-increment column
\* and the NOT NULL checkbox on a primary-key column.
ColumnChange ==
    /\ clock < MaxEvents /\ tableModal.show
    /\ \E index \in 1..Len(tableModal.columns) :
          LET column == tableModal.columns[index]
              change(field, value) ==
                  tableModal' = [tableModal EXCEPT
                                   !.columns = handleColumnChange(@, index, field, value)]
          IN  \/ \E value \in NameInputs : change("name", value)
              \/ \E value \in TypeInputs : change("type", value)
              \/ ~column.autoIncrement /\ change("primaryKey", ~column.primaryKey)
              \/ ~column.primaryKey /\ change("nullable", ~column.nullable)
              \/ change("unique", ~column.unique)
    /\ clock' = clock + 1
    /\ UNCHANGED <<canvasVars, generatorVars>>

\* The delete button of a column, shown when the dialog has two or more.
DeleteColumn ==
    /\ clock < MaxEvents /\ tableModal.show
    /\ Len(tableModal.columns) > 1
    /\ \E index \in 1..Len(tableModal.columns) :
          tableModal' = [tableModal EXCEPT !.columns = handleDeleteColumn(@, index)]
    /\ clock' = clock + 1
    /\ UNCHANGED <<canvasVars, generatorVars>>

\* The save button of the dialog: handleSave, then handleSaveTable; a table
\* that handleSave refuses stays in the dialog.
SaveTable ==
    /\ clock < MaxEvents /\ tableModal.show
    /\ savesTable(tableModal)
    /\ nodes' = handleSaveTable(savedTable(tableModal))
    /\ tableModal' = ClosedModal
    /\ UNCHANGED <<edges, relationships, schemaMode>>
    /\ Refresh
    /\ clock' = clock + 1
    /\ UNCHANGED generatorVars

\* onClose of the dialog (part_000 lines 1167-1170).
CloseModal ==
    /\ clock < MaxEvents /\ tableModal.show
    /\ tableModal' = ClosedModal
    /\ clock' = clock + 1
    /\ UNCHANGED <<canvasVars, generatorVars>>

\* The action of a finding of the panel that calls onAddConstraint.
AddConstraint ==
    /\ clock < MaxEvents /\ ~tableModal.show
    /\ \E f \in {recommendations[k] : k \in 1..Len(recommendations)}
                 \cup {validationIssues[k] : k \in 1..Len(validationIssues)} :
          /\ f.action.handler = "onAddConstraint"
          /\ nodes' = handleAddConstraint(f.action.table, f.action.constraintType)
    /\ UNCHANGED <<edges, relationships, schemaMode>>
    /\ Refresh
    /\ clock' = clock + 1
    /\ UNCHANGED <<generatorVars, tableModal>>

\* The connection gesture, the materialization and the mode toggle on the
\* canvas while no dialog is shown.
Connect ==
    /\ clock < MaxEvents /\ ~tableModal.show
    /\ \E params \in Connections : onConnect(params)
    /\ UNCHANGED schemaMode
    /\ Refresh
    /\ clock' = clock + 1
    /\ UNCHANGED <<generatorVars, tableModal>>
Materialize ==
    /\ clock < MaxEvents /\ ~tableModal.show
    /\ \E r \in 1..Len(recommendations) :
          /\ recommendations[r].action.handler = "onCreateJunctionTable"
          /\ handleCreateJunctionTable(recommendations[r].action.sourceTable,
                                       recommendations[r].action.targetTable)
    /\ UNCHANGED schemaMode
    /\ Refresh
    /\ clock' = clock + 1
    /\ UNCHANGED <<generatorVars, tableModal>>
Toggle == ~tableModal.show /\ ToggleMode

\* deleteTableById (part_000 lines 383-389), after its confirmation: the
\* node goes, and the edges and the relationships at it.
deleteTableById(tableId) ==
    /\ nodes' = filter(nodes, LAMBDA n : n.id # tableId)
    /\ edges' = filter(edges, LAMBDA e : e.source # tableId /\ e.target # tableId)
    /\ relationships' = filter(relationships,
                               LAMBDA r : r.sourceTableId # tableId /\ r.targetTableId # tableId)

\* deleteEntityById (part_000 lines 263-267), after its confirmation: the
\* node goes.
deleteEntityById(entityId) ==
    /\ nodes' = filter(nodes, LAMBDA n : n.id # entityId)
    /\ UNCHANGED <<edges, relationships>>

\* handleEdgeClick (part_000 lines 344-355): the relationships whose dialog
\* a click on an edge opens.
editableRelationships ==
    {k \in 1..Len(relationships) : some(edges, LAMBDA e : e.id = relationships[k].id)}

\* handleSaveRelationship (part_000 lines 357-363).
handleSaveRelationship(updatedRel) ==
    relationships' = map(relationships,
                         LAMBDA r : IF r.id = updatedRel.id THEN updatedRel ELSE r)

\* handleDeleteRelationship (part_000 lines 365-370).
handleDeleteRelationship(relId) ==
    /\ relationships' = filter(relationships, LAMBDA r : r.id # relId)
    /\ edges' = filter(edges, LAMBDA e : e.id # relId)

\* The delete button of a table node (part_002 lines 379-384).
DeleteTable ==
    /\ clock < MaxEvents /\ ~tableModal.show
    /\ \E k \in 1..Len(nodes) :
          /\ nodes[k].type = "tableNode" /\ nodes[k].callbacks
          /\ deleteTableById(nodes[k].data.id)
    /\ UNCHANGED schemaMode
    /\ Refresh
    /\ clock' = clock + 1
    /\ UNCHANGED <<generatorVars, tableModal>>

\* The delete button of an entity node (EntityNode.tsx lines 18-23).
DeleteEntity ==
    /\ clock < MaxEvents /\ ~tableModal.show
    /\ \E k \in 1..Len(nodes) :
          /\ nodes[k].type = "entityNode" /\ nodes[k].callbacks
          /\ deleteEntityById(nodes[k].data.id)
    /\ UNCHANGED schemaMode
    /\ Refresh
    /\ clock' = clock + 1
    /\ UNCHANGED <<generatorVars, tableModal>>

\* The save button of the relationship dialog (part_002 lines 46-59): the
\* relationship with the cardinality and the optionality picked.
SaveRelationship ==
    /\ clock < MaxEvents /\ ~tableModal.show
    /\ \E k \in editableRelationships :
       \E cardinality \in Cardinalities : \E sourceOptional \in BOOLEAN :
          handleSaveRelationship([relationships[k] EXCEPT
                                    !.cardinality = cardinality,
                                    !.sourceOptional = sourceOptional])
    /\ UNCHANGED <<nodes, edges, schemaMode>>
    /\ Refresh
    /\ clock' = clock + 1
    /\ UNCHANGED <<generatorVars, tableModal>>

\* The delete button of the relationship dialog, after its confirmation.
DeleteRelationship ==
    /\ clock < MaxEvents /\ ~tableModal.show
    /\ \E k \in editableRelationships : handleDeleteRelationship(relationships[k].id)
    /\ UNCHANGED <<nodes, schemaMode>>
    /\ Refresh
    /\ clock' = clock + 1
    /\ UNCHANGED <<generatorVars, tableModal>>

\* handleClearAll (part_000 lines 597-603), after its confirmation.
ClearAll ==
    /\ clock < MaxEvents /\ ~tableModal.show
    /\ nodes' = <<>> /\ edges' = <<>> /\ relationships' = <<>>
    /\ UNCHANGED schemaMode
    /\ Refresh
    /\ clock' = clock + 1
    /\ UNCHANGED <<generatorVars, tableModal>>

\* The effect of the panel (EdgeLabel.tsx lines 304-306) on a render that
\* brings no new schema: analyzeSchema runs again.
Analyze ==
    /\ UNCHANGED <<nodes, edges, relationships, schemaMode>>
    /\ Refresh
    /\ UNCHANGED <<generatorVars, clock, tableModal>>

\* The files imported into the canvas: Customer and Invoice in an N:M
\* relationship, and a table of two columns, the second NOT NULL, without a
\* primary key.
CanvasFiles ==
    { [tables |->
         << [id |-> "t1", name |-> "Customer", columns |->
               << [id |-> "c1", name |-> "id", type |-> "AUTOINCREMENT", primaryKey |-> TRUE,
                   nullable |-> FALSE, unique |-> TRUE, autoIncrement |-> TRUE] >>],
            [id |-> "t2", name |-> "Invoice", columns |->
               << [id |-> "c1", name |-> "code", type |-> "TEXT", primaryKey |-> TRUE,
                   nullable |-> FALSE, unique |-> TRUE, autoIncrement |-> FALSE] >>] >>,
       relationships |->
         << [Rel("t1", "c1", "t2", "c1", "N:M", FALSE, FALSE, "NO ACTION", "NO ACTION")
               EXCEPT !.id = RelId(1)] >>],
      [tables |->
         << [id |-> "t1", name |-> "Customer", columns |->
               << [id |-> "c1", name |-> "id", type |-> "INTEGER", primaryKey |-> FALSE,
                   nullable |-> TRUE, unique |-> FALSE, autoIncrement |-> FALSE],
                  [id |-> "c2", name |-> "code", type |-> "TEXT", primaryKey |-> FALSE,
                   nullable |-> FALSE, unique |-> TRUE, autoIncrement |-> FALSE] >>] >>,
       relationships |-> <<>>] }

\* handleImportJSON on the empty canvas, of one of these files.
ImportFile ==
    /\ ~tableModal.show
    /\ nodes = <<>> /\ relationships = <<>>
    /\ \E data \in CanvasFiles :
          /\ nodes' = [k \in 1..Len(data.tables) |-> fileNode(data.tables[k], positionOf(k - 1))]
          /\ edges' = [k \in 1..Len(data.relationships) |-> edgeOf(data.relationships[k])]
          /\ relationships' = data.relationships
    /\ UNCHANGED schemaMode
    /\ Refresh
    /\ UNCHANGED <<generatorVars, clock, tableModal>>

\* The canvas and its dialogs, from the empty editor; generate is not called.
NextCanvas ==
    \/ ImportFile
    \/ Toggle
    \/ Analyze
    \/ AddTable
    \/ EditTable
    \/ AddColumn
    \/ ColumnChange
    \/ DeleteColumn
    \/ SaveTable
    \/ CloseModal
    \/ AddConstraint
    \/ Connect
    \/ Materialize
    \/ DeleteTable
    \/ DeleteEntity
    \/ SaveRelationship
    \/ DeleteRelationship
    \/ ClearAll

SpecCanvas == InitEditor /\ [][NextCanvas]_vars

\* The node of the editor with this id.
NodeOf(id) == nodes[CHOOSE k \in 1..Len(nodes) : nodes[k].id = id]

\* C25: every relationship that onConnect creates between two table nodes
\* has a sourceColumnId that is the id of a column of the source table and a
\* targetColumnId that is the id of a column of the target table, so that the
\* lookup of the Resolver by column id finds both when it is created.
C25_ConnectionNamesColumns ==
    [][IsConnectStep =>
         LET rel == relationships'[Len(relationships')]
             S   == NodeOf(rel.sourceTableId)
             T   == NodeOf(rel.targetTableId)
         IN  (S.type = "tableNode" /\ T.type = "tableNode") =>
                /\ HasColumn(S.data, rel.sourceColumnId)
                /\ HasColumn(T.data, rel.targetColumnId)]_vars

\* The text has a CREATE TABLE statement of the table with a column of the
\* name.
CreatesColumn(tableName, columnName) ==
    \E k \in 1..Len(sql) :
        /\ IsCreate(sql[k])
        /\ sql[k].name = tableName
        /\ \E c \in 1..Len(sql[k].columns) : sql[k].columns[c].name = columnName

\* C24: every ALTER TABLE statement of the text that generate returns fits
\* the CREATE TABLE statements of the same text. The column of its FOREIGN
\* KEY clause is a column of the CREATE TABLE of the altered table, and the
\* column of its REFERENCES clause is a column of the CREATE TABLE of the
\* referenced table.
C24_AlterFitsCreate ==
    (call = "generate" /\ pc = "done") =>
        \A k \in 1..Len(sql) :
            IsAlter(sql[k]) =>
                /\ CreatesColumn(sql[k].table, sql[k].column)
                /\ CreatesColumn(sql[k].refTable, sql[k].refColumn)

\* The part of C24 about the FOREIGN KEY clause.
C24_ForeignKeyColumnCreated ==
    (call = "generate" /\ pc = "done") =>
        \A k \in 1..Len(sql) :
            IsAlter(sql[k]) => CreatesColumn(sql[k].table, sql[k].column)

\* C24 for the schemas whose relationships the Resolver does not skip.
C24_AlterFitsCreateWhenResolved ==
    (call = "generate" /\ pc = "done"
        /\ \A k \in 1..Len(nonMNRelationships) : ~ResolverSkips(nonMNRelationships[k])) =>
        \A k \in 1..Len(sql) :
            IsAlter(sql[k]) =>
                /\ CreatesColumn(sql[k].table, sql[k].column)
                /\ CreatesColumn(sql[k].refTable, sql[k].refColumn)

(* Materialization of a junction table, then DDL generation *)

\* The user takes the action of an N:M recommendation while no call of
\* generate is running (a handler runs to completion).
MaterializeJunction == call = "none" /\ pc = "idle" /\ CreateJunctionTable

NextMaterialize == MaterializeJunction \/ GenerateSQL \/ Next

SpecMaterialize == InitAdvise /\ [][NextMaterialize]_vars

\* The tables that handleCreateJunctionTable has added to the editor, each
\* with the two tables it joins: the sources of the two relationships added
\* with it.
MaterializedJunctions ==
    { <<nodes[k].data,
        TableOf(relationships[CHOOSE r \in 1..Len(relationships) :
                    relationships[r].id = "rel-" \o ToString(t) \o "-1"].sourceTableId),
        TableOf(relationships[CHOOSE r \in 1..Len(relationships) :
                    relationships[r].id = "rel-" \o ToString(t) \o "-2"].sourceTableId)>> :
        k \in {j \in 1..Len(nodes) : \E u \in 0..MaxGestures : nodes[j].id = "table-" \o ToString(u)},
        t \in {u \in 0..MaxGestures : \E j \in 1..Len(nodes) : nodes[j].id = "table-" \o ToString(u)} }

\* The CREATE TABLE statements of the text with this table name.
CreatesNamed(name) == {k \in 1..Len(sql) : IsCreate(sql[k]) /\ sql[k].name = name}

\* generate has returned the text of the schema of the editor.
GeneratedFromEditor ==
    /\ call = "generate" /\ pc = "done"
    /\ schema.relationships = relationships

\* C26: after handleCreateJunctionTable has run for an N:M relationship
\* between two tables A and B, both with a primary key, the text of the next
\* generate has exactly one CREATE TABLE statement named A_B, with exactly
\* two columns.
C26_OneJunctionTableInText ==
    GeneratedFromEditor =>
        \A m \in MaterializedJunctions :
            (m[2].id # m[3].id /\ HasPK(m[2]) /\ HasPK(m[3])) =>
                /\ m[1].name = m[2].name \o "_" \o m[3].name
                /\ Cardinality(CreatesNamed(m[1].name)) = 1
                /\ \A k \in CreatesNamed(m[1].name) : Len(sql[k].columns) = 2

\* The part of C26 about the number of statements alone.
C26_OneStatementNamedAfterBoth ==
    GeneratedFromEditor =>
        \A m \in MaterializedJunctions :
            (m[2].id # m[3].id /\ HasPK(m[2]) /\ HasPK(m[3])) => Cardinality(CreatesNamed(m[1].name)) = 1

\* The part of C26 about the number of columns alone.
C26_TwoColumns ==
    GeneratedFromEditor =>
        \A m \in MaterializedJunctions :
            (m[2].id # m[3].id /\ HasPK(m[2]) /\ HasPK(m[3])) =>
                \A k \in CreatesNamed(m[1].name) :
                    IsTableCreate(sql[k]) => Len(sql[k].columns) = 2

----------------------------------------------------------------------------
(* The canvas and the table dialog: the flags of the columns *)

\* The columns of the tables on the canvas.
CanvasColumns ==
    UNION { {n.data.columns[k] : k \in 1..Len(n.data.columns)} :
            n \in {nodes[j] : j \in {j \in 1..Len(nodes) : nodes[j].type = "tableNode"}} }

\* C22: after the column edits of the table dialog, the mode conversions,
\* the remediations and the junction materializations, every autoIncrement
\* column of a table on the canvas is primaryKey, not nullable and unique.
C22_AutoIncrementIsUniqueKey ==
    \A col \in CanvasColumns :
        col.autoIncrement => col.primaryKey /\ ~col.nullable /\ col.unique

\* C22, the part without the unique flag: every autoIncrement column of a
\* table on the canvas is primaryKey and not nullable.
C22_AutoIncrementIsKey ==
    \A col \in CanvasColumns : col.autoIncrement => col.primaryKey /\ ~col.nullable

\* The columns the table dialog shows.
DialogColumns ==
    IF tableModal.show
    THEN {tableModal.columns[k] : k \in 1..Len(tableModal.columns)}
    ELSE {}

\* C23: after the column edits of the table dialog, the add-primary-key
\* remediations, the mode conversions, the connection gestures and the
\* junction materializations, every primaryKey column, of a table on the
\* canvas or in the dialog, is not nullable.
C23_PrimaryKeyIsNotNullable ==
    \A col \in CanvasColumns \cup DialogColumns : col.primaryKey => ~col.nullable

\* C23, its case: the dialog holds a column the user added, nullable, and
\* then made the primary key.
C23_Witness ==
    \E col \in DialogColumns : col.name = "" /\ col.primaryKey /\ ~col.autoIncrement

\* C27: the add-primary-key remediation makes the first column of its table
\* primaryKey and not nullable, and leaves every other column of the table
\* and every other table as they were.
C27_KeyStepTouchesFirstColumnOnly ==
    [][AddConstraint =>
         /\ Len(nodes') = Len(nodes)
         /\ \A k \in 1..Len(nodes) :
               LET old == nodes[k].data.columns
                   new == nodes'[k].data.columns
               IN  /\ nodes'[k].id = nodes[k].id
                   /\ Len(new) = Len(old)
                   /\ \A j \in 2..Len(old) : new[j] = old[j]
                   /\ Len(old) > 0 =>
                         \/ new[1] = old[1]
                         \/ new[1] = [old[1] EXCEPT !.primaryKey = TRUE, !.nullable = FALSE]]_vars

\* C27, without the nullable flag of the other columns: the remediation
\* makes the first column of its table primaryKey and not nullable, leaves
\* every other flag but nullable of the other columns, and every other
\* table, as they were.
C27_KeyStepKeepsOtherFlagsButNullable ==
    [][AddConstraint =>
         /\ Len(nodes') = Len(nodes)
         /\ \A k \in 1..Len(nodes) :
               LET old == nodes[k].data.columns
                   new == nodes'[k].data.columns
               IN  /\ nodes'[k].id = nodes[k].id
                   /\ Len(new) = Len(old)
                   /\ \A j \in 2..Len(old) :
                         \/ new[j] = old[j]
                         \/ new[j] = [old[j] EXCEPT !.nullable = TRUE]
                   /\ Len(old) > 0 =>
                         \/ new[1] = old[1]
                         \/ new[1] = [old[1] EXCEPT !.primaryKey = TRUE, !.nullable = FALSE]]_vars

----------------------------------------------------------------------------
(* The canvas: nodes, edges and relationships *)

NodeIds == {nodes[k].id : k \in 1..Len(nodes)}

\* C28: every relationship, and every edge, of the canvas runs between
\* nodes of the canvas.
C28_EndpointsExist ==
    /\ \A k \in 1..Len(relationships) :
          /\ relationships[k].sourceTableId \in NodeIds
          /\ relationships[k].targetTableId \in NodeIds
    /\ \A k \in 1..Len(edges) :
          /\ edges[k].source \in NodeIds
          /\ edges[k].target \in NodeIds

\* C28, for the deletion of a table: after it no relationship and no edge
\* names the id of the deleted table.
C28_TableDeletionLeavesNone ==
    [][DeleteTable =>
         \A id \in NodeIds :
            id \notin {nodes'[k].id : k \in 1..Len(nodes')} =>
               /\ \A k \in 1..Len(relationships') :
                     /\ relationships'[k].sourceTableId # id
                     /\ relationships'[k].targetTableId # id
               /\ \A k \in 1..Len(edges') :
                     edges'[k].source # id /\ edges'[k].target # id]_vars

\* C29: the ids of the edges of the canvas are the ids of its relationships.
C29_EdgesAreRelationships ==
    {edges[k].id : k \in 1..Len(edges)} = {relationships[k].id : k \in 1..Len(relationships)}

\* C29, one direction: every edge of the canvas has a relationship of its id.
C29_EveryEdgeHasRelationship ==
    {edges[k].id : k \in 1..Len(edges)} \subseteq {relationships[k].id : k \in 1..Len(relationships)}

\* The id, name and place of every node of the canvas.
Placed(ns) == {<<ns[k].id, ns[k].data.name, ns[k].position>> : k \in 1..Len(ns)}

\* C30: a toggle of the mode keeps the number of the nodes and the id, name
\* and position of every node, leaves every node with the node type of the
\* new mode, and leaves the relationships and the edges as they were.
C30_ToggleKeepsNodes ==
    [][Toggle =>
         /\ Len(nodes') = Len(nodes)
         /\ Placed(nodes') = Placed(nodes)
         /\ schemaMode' # schemaMode
         /\ \A k \in 1..Len(nodes') :
               nodes'[k].type = IF schemaMode' = "CONCEPTUAL" THEN "entityNode" ELSE "tableNode"
         /\ relationships' = relationships
         /\ edges' = edges]_vars

\* C30, its case: the canvas in CONCEPTUAL mode after a toggle, with two
\* nodes at different places and a relationship.
C30_Witness ==
    /\ schemaMode = "CONCEPTUAL"
    /\ Len(nodes) >= 2
    /\ nodes[1].position # nodes[2].position
    /\ \A k \in 1..Len(nodes) : nodes[k].type = "entityNode"
    /\ relationships # <<>> /\ edges # <<>>

----------------------------------------------------------------------------
(* The panel: the analysis *)

\* The findings of an analysis of the schema the canvas holds.
CurrentFindings ==
    analyzeSchema(dataOf(tableNodes), dataOf(entityNodes),
                  relationships, conceptualRelationships, schemaMode)

C21_AnalysisChangesNoSchema ==
    [][Analyze =>
         /\ UNCHANGED <<nodes, edges, relationships, schemaMode>>
         /\ UNCHANGED <<recommendations, validationIssues>>]_vars

====
